---- MODULE Spec2Model ----
(***************************************************************************)
(* Shulchan Aruch Yomi: the daily selection engine (src/src/selector.py),  *)
(* the Sefaria client's retry loop (src/src/sefaria.py) and the data       *)
(* models (src/src/models.py), as a state machine over the two in-process  *)
(* caches and the per-date snapshot files.                                 *)
(*                                                                         *)
(* Python's None is the record None; dict-valued caches are functions      *)
(* whose DOMAIN is the set of keys present.  A date is identified with its *)
(* ISO string (for_date.isoformat()), which is both cache key and seed.    *)
(***************************************************************************)
EXTENDS Integers, Sequences, FiniteSets, TLC

VARIABLES
    memory,     \* selector._memory_cache : dict[str, DailyPair]
    messages,   \* selector._message_cache : dict[str, list[str]]
    disk,       \* CACHE_DIR / pair_<date>.json, one file per date
    entropy,    \* what this process would draw from an unseeded generator
    ret,        \* the call of get_daily_pair that has just returned, if any
    prev,       \* the call that returned last in the process before this one
    built,      \* the last direct DailyPair(...) construction and its outcome
    catalog,    \* data/volumes.json as this deployment has it
    pool,       \* one fresh computation, thread by thread: the two futures
    callers,    \* two threads inside get_daily_pair, line by line
    msgret,     \* the call of get_cached_messages that has just returned, if any
    subsfile,   \* .github/state/subscribers.json
    refset,     \* the ids added and not removed since, by the book
    subret,     \* the call of a subscribers function that has just returned
    cmdret,     \* the call of get_start_messages or get_today_messages just returned
    fetched,    \* the call of fetch_halacha on a reply given character by character
    chunked,    \* the call of chunk_text that has returned
    laidout,    \* the call of split_text or format_daily_message that has returned
    voiced,     \* the call of send_voice_for_pair that has ended
    statefile,  \* .github/state/last_update_id.json
    polled,     \* the run of poll_and_respond that has ended
    cast,       \* the send_daily_broadcast that has ended
    spoken,     \* cache/audio and the last send_voice_for_pair over it
    published   \* the call of publish_text that has ended

\* the state of src/subscribers.py
subscribers == <<subsfile, refset, subret>>

\* what lies apart from the selector and the subscribers
\* the records of calls of functions that keep no state
stateless == <<chunked, laidout, voiced>>

\* the state and the records of the scripts and of the bot
scripts == <<statefile, polled, cast, spoken, published>>

others == <<cmdret, fetched, stateless, scripts>>

\* what lies apart from the selector
apart == <<subscribers, others>>

\* the variables the selector's own actions leave alone
rest == <<catalog, pool, callers, apart>>

vars == <<memory, messages, disk, entropy, ret, prev, built, catalog, pool, callers,
          msgret, apart>>

-----------------------------------------------------------------------------
(* Bounds of the model *)

\* max_siman of the catalog entries (data/volumes.json holds 697, 403, 178, 427)
MaxSiman == 2

\* number of seifim the Content Source reports for a siman that exists
SeifsPerSiman == 2

\* the retry bound of get_random_halacha_from_volume
MaxAttempts == 10

\* fetch_halacha rejects cleaned text shorter than this
MinTextLen == 10

Dates == {"2026-02-16", "2026-02-17"}

-----------------------------------------------------------------------------
(* Python values *)

None == [none |-> TRUE]

IsNone(x) == "none" \in DOMAIN x

(* hebrew_text: its length, whether it contains the substring               *)
(* "לא ניתן לטעון", and what it is the text of.                             *)
RealText(ref_base, siman, seif, len, marked) ==
    [len |-> len, marked |-> marked, body |-> <<ref_base, siman, seif>>]

\* selector.py:160, the fixed placeholder; it contains the marker
FallbackText == [len |-> 57, marked |-> TRUE, body |-> <<"unavailable", 0, 0>>]

\* selector.py:221-224, `fallback_marker not in x.hebrew_text`
ContainsMarker(text) == text.marked

-----------------------------------------------------------------------------
(* models.py *)

VOLUME_NAMES == <<"Orach Chaim", "Yoreh De'ah", "Even HaEzer", "Choshen Mishpat">>

Volume(volume, volume_he, ref_base, max_siman) ==
    [volume |-> volume, volume_he |-> volume_he,
     ref_base |-> ref_base, max_siman |-> max_siman]

Halacha(volume, siman, seif, hebrew_text, sefaria_url) ==
    [volume |-> volume, siman |-> siman, seif |-> seif,
     hebrew_text |-> hebrew_text, sefaria_url |-> sefaria_url]

\* a mutant: the whole Volume objects are compared, not their names
DailyPairRejectsEqualVolumes(first, second) == first.volume = second.volume

\* DailyPair.__post_init__: `self.first.volume.volume == self.second.volume.volume`
DailyPairRejects(first, second) ==
    first.volume.volume = second.volume.volume

\* DailyPair(first=..., second=..., date_seed=...): the pair, or the error raised
DailyPair(first, second, date_seed) ==
    IF IsNone(first) \/ IsNone(second)
    THEN [raised |-> "AttributeError", pair |-> None]
    ELSE IF DailyPairRejects(first, second)
    THEN [raised |-> "ValueError", pair |-> None]
    ELSE [raised |-> "",
          pair |-> [first |-> first, second |-> second, date_seed |-> date_seed]]

-----------------------------------------------------------------------------
(* The catalog (data/volumes.json as SefariaClient._load_catalog reads it) *)

Catalog ==
    << Volume("Orach Chaim", "OC-he", "Shulchan_Arukh,_Orach_Chayim", MaxSiman + 1),
       Volume("Yoreh De'ah", "YD-he", "Shulchan_Arukh,_Yoreh_De'ah", MaxSiman),
       Volume("Even HaEzer", "EH-he", "Shulchan_Arukh,_Even_HaEzer", MaxSiman + 1),
       Volume("Choshen Mishpat", "CM-he", "Shulchan_Arukh,_Choshen_Mishpat", MaxSiman) >>

\* the file is there and holds the four volumes
CatalogFile(volumes) == [exists |-> TRUE, volumes |-> volumes]

\* there is no data/volumes.json
CatalogMissing == [exists |-> FALSE, volumes |-> << >>]

\* SefariaClient._load_catalog: the volumes, or FileNotFoundError
LoadCatalog(file) ==
    IF ~file.exists
    THEN [raised |-> "FileNotFoundError", volumes |-> << >>]
    ELSE [raised |-> "", volumes |-> file.volumes]

\* SefariaClient.get_volume over the loaded catalog: the first volume of that name
GetVolumeIn(volumes, name) ==
    LET hits == {i \in DOMAIN volumes : volumes[i].volume = name}
    IN  IF hits = {} THEN None
        ELSE volumes[CHOOSE i \in hits : \A j \in hits : i <= j]

\* SefariaClient.get_volume, once the catalog property has loaded
GetVolume(name) == GetVolumeIn(LoadCatalog(catalog).volumes, name)

-----------------------------------------------------------------------------
(* random.Random seeded from a SHA-256 prefix.  The generator is a small    *)
(* full-period congruential generator and the hash a fixed mixing of the   *)
(* date and the suffix: what the selector relies on is only that the       *)
(* stream is a function of the seed string.                                 *)

DayNo(d) == CASE d = "2026-02-16" -> 16
              [] d = "2026-02-17" -> 17
              [] OTHER -> 1

SuffixNo(s) == CASE s = "" -> 0
                 [] s = "-1" -> 1
                 [] s = "-2" -> 2
                 [] OTHER -> 3

\* int(hashlib.sha256(s.encode()).hexdigest()[:16], 16) for s = d + suffix
Sha256Int(d, suffix) == (DayNo(d) * 11 + SuffixNo(suffix) * 23 + 5) % 64

\* a mutant: the generator is also seeded from the process, as an unseeded
\* random.Random() is
SeededRandomProcess(d, suffix) == (Sha256Int(d, suffix) + 7 * entropy) % 64

\* random.Random(seed_int): the generator's initial state
SeededRandom(d, suffix) == Sha256Int(d, suffix)

RngNext(x) == (5 * x + 3) % 64

\* Random._randbelow(n): a draw in 0..n-1 and the generator afterwards
RandBelow(rng, n) ==
    [val |-> (RngNext(rng) \div 4) % n, rng |-> RngNext(rng)]

\* a mutant: the draw is not moved up to start at a
RandIntFromZero(rng, a, b) ==
    [val |-> RandBelow(rng, b - a + 1).val, rng |-> RandBelow(rng, b - a + 1).rng]

\* Random.randint(a, b)
RandInt(rng, a, b) ==
    LET r == RandBelow(rng, b - a + 1) IN [val |-> a + r.val, rng |-> r.rng]

Swap(s, i, j) == [s EXCEPT ![i] = s[j], ![j] = s[i]]

\* Random.shuffle: for i in reversed(range(1, len(x))): j = randbelow(i + 1); swap
RECURSIVE ShuffleFrom(_, _, _)
ShuffleFrom(s, rng, i) ==
    IF i < 2 THEN [names |-> s, rng |-> rng]
    ELSE LET r == RandBelow(rng, i)
         IN  ShuffleFrom(Swap(s, i, r.val + 1), r.rng, i - 1)

Shuffle(s, rng) == ShuffleFrom(s, rng, Len(s))

-----------------------------------------------------------------------------
(* The Content Source (www.sefaria.org/api/texts/<ref>?context=0) as the    *)
(* client sees it.  A request names a reference: ref_base.siman (seif = 0  *)
(* below) or ref_base.siman.seif.  src gives, per category, how the source *)
(* behaves towards that category's references:                             *)
(*   up      every siman has SeifsPerSiman seifim with proper text         *)
(*   down    every request fails in transport (timeout, HTTP error)        *)
(*   nolist  "he" of a whole siman is one string, not a list of seifim     *)
(*   sparse  seif texts exist for siman 1 only; elsewhere the text is      *)
(*           empty (seif 1) or too short (other seifim)                    *)
(*   marked  as up, and the text contains the words of the placeholder     *)

Modes == {"up", "down", "nolist", "sparse", "marked"}

Request(ref_base, siman, seif) == [ref_base |-> ref_base, siman |-> siman, seif |-> seif]

NoText == [len |-> 0, marked |-> FALSE, body |-> <<"", 0, 0>>]

\* the JSON body of a successful response: data["he"]
Response(ok, he_is_list, he_count, he_text) ==
    [ok |-> ok, he_is_list |-> he_is_list, he_count |-> he_count, he_text |-> he_text]

\* what session.get(...) yields for the reference, raise_for_status included
Respond(mode, req) ==
    IF mode = "down" THEN Response(FALSE, FALSE, 0, NoText)
    ELSE IF req.seif = 0
    THEN IF mode = "nolist"
         THEN Response(TRUE, FALSE, 0,
                       RealText(req.ref_base, req.siman, 0, 2 * MinTextLen, FALSE))
         ELSE Response(TRUE, TRUE, SeifsPerSiman, NoText)
    ELSE IF mode = "sparse" /\ req.siman # 1
    THEN Response(TRUE, FALSE, 0,
                  RealText(req.ref_base, req.siman, req.seif,
                           IF req.seif = 1 THEN 0 ELSE MinTextLen - 1, FALSE))
    ELSE Response(TRUE, FALSE, 0,
                  RealText(req.ref_base, req.siman, req.seif,
                           2 * MinTextLen, mode = "marked"))

\* SefariaClient.get_text: the parsed body, or None on RequestException
GetText(src, volume, req) ==
    LET r == Respond(src[volume.volume], req)
    IN  IF r.ok THEN r ELSE None

\* `not hebrew or len(hebrew) < 10`
TextTooShort(hebrew) == hebrew.len = 0 \/ hebrew.len < MinTextLen

\* the URL fetch_halacha builds: WEB_URL/<reference>
SefariaUrl(ref_base, siman, seif) == <<"https://www.sefaria.org", ref_base, siman, seif>>

\* SefariaClient.fetch_halacha
FetchHalacha(src, volume, siman, seif) ==
    LET data == GetText(src, volume, Request(volume.ref_base, siman, seif))
    IN  IF IsNone(data) THEN None
        ELSE IF TextTooShort(data.he_text) THEN None
        ELSE Halacha(volume, siman, seif, data.he_text,
                     SefariaUrl(volume.ref_base, siman, seif))

\* SefariaClient._get_seif_count: len(he) when he is a list, else None
GetSeifCount(src, volume, siman) ==
    LET data == GetText(src, volume, Request(volume.ref_base, siman, 0))
    IN  IF IsNone(data) THEN None
        ELSE IF data.he_is_list THEN [n |-> data.he_count]
        ELSE None

\* `if seif_count and seif_count > 0`
HasSeifim(seif_count) == ~IsNone(seif_count) /\ seif_count.n > 0

(* One pass of the body of `for attempt in range(10)`: the siman draw, the  *)
(* seif count, the optional seif draw and fetch, the seif-1 fetch.  Yields *)
(* the halacha found (or None), the generator afterwards, the siman drawn  *)
(* and the requests sent, in order.                                         *)

AttemptResult(halacha, rng, reqs, siman) ==
    [halacha |-> halacha, rng |-> rng, reqs |-> reqs, siman |-> siman]

\* sefaria.py:159-165, "Fallback: try seif 1 directly"
AttemptSeifOne(src, volume, siman, rng, reqs) ==
    AttemptResult(FetchHalacha(src, volume, siman, 1), rng,
                  Append(reqs, Request(volume.ref_base, siman, 1)), siman)

\* a mutant: the unit fetched for the drawn seif is passed over
AttemptFetchedPassedOver(src, volume, siman, d2, reqs, h) ==
    AttemptSeifOne(src, volume, siman, d2.rng, reqs)

\* sefaria.py:152-157, once fetch_halacha(volume, siman, seif) has answered h
AttemptFetched(src, volume, siman, d2, reqs, h) ==
    IF ~IsNone(h)
    THEN AttemptResult(h, d2.rng, reqs, siman)
    ELSE AttemptSeifOne(src, volume, siman, d2.rng, reqs)

\* sefaria.py:150-152, once the seif has been drawn (d2)
AttemptSeif(src, volume, siman, d2) ==
    AttemptFetched(src, volume, siman, d2,
                   << Request(volume.ref_base, siman, 0),
                      Request(volume.ref_base, siman, d2.val) >>,
                   FetchHalacha(src, volume, siman, d2.val))

\* sefaria.py:148-149, once the siman has been drawn (d1) and counted (cnt)
AttemptCounted(src, volume, d1, cnt) ==
    IF HasSeifim(cnt)
    THEN AttemptSeif(src, volume, d1.val, RandInt(d1.rng, 1, cnt.n))
    ELSE AttemptSeifOne(src, volume, d1.val, d1.rng,
                        <<Request(volume.ref_base, d1.val, 0)>>)

\* sefaria.py:145-148, once the siman has been drawn (d1)
AttemptDrawn(src, volume, d1) ==
    AttemptCounted(src, volume, d1, GetSeifCount(src, volume, d1.val))

Attempt(src, volume, rng) ==
    AttemptDrawn(src, volume, RandInt(rng, 1, volume.max_siman))

\* what get_random_halacha_from_volume returns, with what it did
Fetched(halacha, rng, attempts, reqs, simanim) ==
    [halacha |-> halacha, rng |-> rng, attempts |-> attempts,
     reqs |-> reqs, simanim |-> simanim]

\* SefariaClient.get_random_halacha_from_volume, from attempt number `attempt`
RECURSIVE AttemptsFrom(_, _, _, _, _, _)
RECURSIVE AfterAttempt(_, _, _, _, _, _)
AfterAttempt(src, volume, attempt, reqs, simanim, a) ==
    IF ~IsNone(a.halacha)
    THEN Fetched(a.halacha, a.rng, attempt + 1, reqs \o a.reqs,
                 Append(simanim, a.siman))
    ELSE AttemptsFrom(src, volume, a.rng, attempt + 1, reqs \o a.reqs,
                      Append(simanim, a.siman))

AttemptsFrom(src, volume, rng, attempt, reqs, simanim) ==
    IF attempt >= MaxAttempts
    THEN Fetched(None, rng, attempt, reqs, simanim)
    ELSE AfterAttempt(src, volume, attempt, reqs, simanim, Attempt(src, volume, rng))

GetRandomHalachaFromVolume(src, volume, rng) ==
    AttemptsFrom(src, volume, rng, 0, <<>>, <<>>)

-----------------------------------------------------------------------------
(* selector.py: seeds and category selection *)

\* HalachaSelector._get_daily_seed
GetDailySeed(d) == d

\* HalachaSelector._get_daily_rng
GetDailyRng(d) == SeededRandom(GetDailySeed(d), "")

\* a mutant: the second category is taken from the same index as the first
SecondNameSame(names) == names[1]

\* names[1] of the shuffled list
SecondName(names) == names[2]

\* a mutant: a lookup that found nothing is passed on as if it were a volume
VolumeAbsentNever(vol) == FALSE

\* `not vol1`, `not vol2`
VolumeAbsent(vol) == IsNone(vol)

\* HalachaSelector._select_two_volumes; self.client.get_volume loads the catalog
\* on first use and lets FileNotFoundError through
SelectTwoVolumes(rng) ==
    LET sh   == Shuffle(VOLUME_NAMES, rng)
        vol1 == GetVolume(sh.names[1])
        vol2 == GetVolume(SecondName(sh.names))
    IN  IF LoadCatalog(catalog).raised # ""
        THEN [raised |-> LoadCatalog(catalog).raised,
              vol1 |-> None, vol2 |-> None, rng |-> sh.rng]
        ELSE IF VolumeAbsent(vol1) \/ VolumeAbsent(vol2)
        THEN [raised |-> "RuntimeError", vol1 |-> vol1, vol2 |-> vol2, rng |-> sh.rng]
        ELSE [raised |-> "", vol1 |-> vol1, vol2 |-> vol2, rng |-> sh.rng]

\* the URL of a fallback unit: https://www.sefaria.org/<ref_base>.<siman>
FallbackUrl(ref_base, siman) == <<"https://www.sefaria.org", ref_base, siman, 0>>

\* a mutant: the link names seif 1, as the link of a fetched unit does
GetFallbackHalachaSeifLink(volume, rng) ==
    [halacha |-> Halacha(volume, RandInt(rng, 1, volume.max_siman).val, 1, FallbackText,
                         SefariaUrl(volume.ref_base,
                                    RandInt(rng, 1, volume.max_siman).val, 1)),
     rng |-> RandInt(rng, 1, volume.max_siman).rng]

\* HalachaSelector._get_fallback_halacha: the unit and the generator afterwards
GetFallbackHalacha(volume, rng) ==
    LET r == RandInt(rng, 1, volume.max_siman)
    IN  [halacha |-> Halacha(volume, r.val, 1, FallbackText,
                             FallbackUrl(volume.ref_base, r.val)),
         rng |-> r.rng]

-----------------------------------------------------------------------------
(* formatter.py, as far as the caches see it.  Every text of the model fits *)
(* one message, so a unit renders to one message.                           *)

\* a JSON scalar standing where an object or a string is expected
Scalar(kind) == [scalar |-> kind]

IsScalar(x) == "scalar" \in DOMAIN x

\* format_welcome_message
WelcomeMessage == [welcome |-> TRUE]

\* for_date.strftime("%d/%m/%Y")
DateStr(d) == <<"dd/mm/yyyy", d>>

\* format_halacha_messages: len(halacha.hebrew_text) raises TypeError for a non-string
FormatHalachaMessages(h, number, date_str) ==
    IF IsScalar(h.hebrew_text)
    THEN [raised |-> "TypeError", msgs |-> <<>>]
    ELSE [raised |-> "",
          msgs |-> << [number |-> number, date_str |-> date_str,
                       url |-> h.sefaria_url, volume_he |-> h.volume.volume_he,
                       siman |-> h.siman, seif |-> h.seif, chunk |-> h.hebrew_text] >>]

\* format_daily_message
FormatDailyMessage(pair, d) ==
    LET m1 == FormatHalachaMessages(pair.first, 1, DateStr(d))
        m2 == FormatHalachaMessages(pair.second, 2, <<>>)
    IN  IF m1.raised # "" THEN m1
        ELSE IF m2.raised # "" THEN m2
        ELSE [raised |-> "", msgs |-> m1.msgs \o m2.msgs]

-----------------------------------------------------------------------------
(* selector.py: the durable snapshot.  A file is either text that is not    *)
(* JSON, [garbage |-> TRUE], or [json |-> data] with data the parsed value: *)
(* a JSON object is a record whose DOMAIN is its keys, any other JSON value *)
(* is a Scalar.                                                             *)

Garbage == [garbage |-> TRUE]

VolumeKeys == {"volume", "volume_he", "ref_base", "max_siman"}

UnitKeys == {"siman", "seif", "hebrew_text", "sefaria_url"}

\* a dict gains or replaces a key
Put(f, k, v) == [x \in (DOMAIN f) \cup {k} |-> IF x = k THEN v ELSE f[x]]

\* a dict loses a key
Drop(f, k) == [x \in (DOMAIN f) \ {k} |-> f[x]]

\* the "first" / "second" object _save_cached_pair writes for a unit
UnitJson(h) ==
    [volume |-> [volume |-> h.volume.volume, volume_he |-> h.volume.volume_he,
                 ref_base |-> h.volume.ref_base, max_siman |-> h.volume.max_siman],
     siman |-> h.siman, seif |-> h.seif,
     hebrew_text |-> h.hebrew_text, sefaria_url |-> h.sefaria_url]

\* the `data` dict of _save_cached_pair
SnapshotData(pair, formatted_messages) ==
    [date_seed |-> pair.date_seed,
     formatted_messages |-> formatted_messages,
     first |-> UnitJson(pair.first),
     second |-> UnitJson(pair.second)]

\* the exception, if any, of building one Halacha from data[key] (selector.py:73-89)
UnitLoadError(data, key) ==
    IF key \notin DOMAIN data THEN "KeyError"
    ELSE IF IsScalar(data[key]) THEN "TypeError"
    ELSE IF "volume" \notin DOMAIN data[key] THEN "KeyError"
    ELSE IF IsScalar(data[key].volume) THEN "TypeError"
    ELSE IF DOMAIN data[key].volume # VolumeKeys THEN "TypeError"
    ELSE IF ~(UnitKeys \subseteq DOMAIN data[key]) THEN "KeyError"
    ELSE ""

\* a mutant: the sub-locator is read from the locator's key
UnitFromJsonSimanTwice(u) ==
    Halacha(Volume(u.volume.volume, u.volume.volume_he,
                   u.volume.ref_base, u.volume.max_siman),
            u.siman, u.siman, u.hebrew_text, u.sefaria_url)

\* the Halacha _load_cached_pair builds from data[key]
UnitFromJson(u) ==
    Halacha(Volume(u.volume.volume, u.volume.volume_he,
                   u.volume.ref_base, u.volume.max_siman),
            u.siman, u.seif, u.hebrew_text, u.sefaria_url)

\* the exception, if any, that the try block raises before the pair exists
LoadError(file) ==
    IF "garbage" \in DOMAIN file THEN "JSONDecodeError"
    ELSE IF IsScalar(file.json) THEN "TypeError"
    ELSE IF UnitLoadError(file.json, "first") # "" THEN UnitLoadError(file.json, "first")
    ELSE IF UnitLoadError(file.json, "second") # "" THEN UnitLoadError(file.json, "second")
    ELSE IF "date_seed" \notin DOMAIN file.json THEN "KeyError"
    ELSE DailyPair(UnitFromJson(file.json.first), UnitFromJson(file.json.second),
                   file.json.date_seed).raised

\* `except (json.JSONDecodeError, KeyError, TypeError)`
Caught(err) == err \in {"JSONDecodeError", "KeyError", "TypeError"}

\* a mutant: the memory cache is replaced by one holding this date only
PromoteAlone(mem, d, pair) == [x \in {d} |-> pair]

\* a mutant: a durable hit is not promoted into the memory cache
PromoteNot(mem, d, pair) == mem

\* a mutant: the memory tier is never consulted
InMemoryNever(mem, d) == FALSE

\* selector.py:61, `cache_key in _memory_cache`
InMemory(mem, d) == d \in DOMAIN mem

\* selector.py:92, `_memory_cache[cache_key] = pair`
Promote(mem, d, pair) == Put(mem, d, pair)

\* a mutant: the regenerated messages are built and dropped
CacheRenderedNot(msgs, d, content_messages) == msgs

\* selector.py:98-100, `_message_cache[cache_key] = [welcome] + content_messages`
CacheRendered(msgs, d, content_messages) ==
    Put(msgs, d, <<WelcomeMessage>> \o content_messages)

(* HalachaSelector._load_cached_pair: the value returned (a pair or None),  *)
(* the exception that escapes (or ""), the tier that answered, and the two *)
(* memory caches afterwards.                                                *)
LoadCachedPair(d, mem, msgs, dsk) ==
    IF InMemory(mem, d)
    THEN [value |-> mem[d], raised |-> "", tier |-> "memory",
          memory |-> mem, messages |-> msgs]
    ELSE IF d \notin DOMAIN dsk
    THEN [value |-> None, raised |-> "", tier |-> "none",
          memory |-> mem, messages |-> msgs]
    ELSE LET err == LoadError(dsk[d])
         IN  IF err # ""
             THEN [value |-> None, raised |-> IF Caught(err) THEN "" ELSE err,
                   tier |-> "none", memory |-> mem, messages |-> msgs]
             ELSE LET data == dsk[d].json
                      pair == DailyPair(UnitFromJson(data.first),
                                        UnitFromJson(data.second),
                                        data.date_seed).pair
                      mem2 == Promote(mem, d, pair)
                  IN  IF "formatted_messages" \in DOMAIN data
                      THEN [value |-> pair, raised |-> "", tier |-> "durable",
                            memory |-> mem2,
                            messages |-> Put(msgs, d, data.formatted_messages)]
                      ELSE LET fm == FormatDailyMessage(pair, d)
                           IN  IF fm.raised # ""
                               THEN [value |-> None,
                                     raised |-> IF Caught(fm.raised) THEN ""
                                                ELSE fm.raised,
                                     tier |-> "none",
                                     memory |-> mem2, messages |-> msgs]
                               ELSE [value |-> pair, raised |-> "",
                                     tier |-> "durable", memory |-> mem2,
                                     messages |-> CacheRendered(msgs, d, fm.msgs)]

(* HalachaSelector._save_cached_pair: the message cache is set first, then  *)
(* the file is opened and written; io = "fail" is open() raising OSError.  *)
SaveCachedPair(pair, d, io, msgs, dsk) ==
    LET formatted == <<WelcomeMessage>> \o FormatDailyMessage(pair, d).msgs
    IN  [messages |-> Put(msgs, d, formatted),
         disk |-> IF io = "ok"
                  THEN Put(dsk, d, [json |-> SnapshotData(pair, formatted)])
                  ELSE dsk,
         raised |-> IF io = "ok" THEN "" ELSE "OSError"]

-----------------------------------------------------------------------------
(* selector.py: get_daily_pair *)

\* what one slot's fetch sequence did: the attempts made, the requests sent,
\* the simanim drawn and the halacha it returned (None after the last failure)
Trace(f) ==
    [attempts |-> f.attempts, reqs |-> f.reqs, simanim |-> f.simanim,
     unit |-> f.halacha, fallback |-> IsNone(f.halacha)]

NoTrace ==
    [attempts |-> 0, reqs |-> <<>>, simanim |-> <<>>, unit |-> None, fallback |-> FALSE]

\* a mutant: a failed slot is left as None
UseFallbackNever(h) == FALSE

\* `if not first:` / `if not second:`
UseFallback(h) == IsNone(h)

\* selector.py:221-225: neither text contains the fallback marker
ShouldSave(first, second) ==
    ~ContainsMarker(first.hebrew_text) /\ ~ContainsMarker(second.hebrew_text)

\* selector.py:208-210, the unit of slot `first` and the date generator afterwards
FirstUnit(vol1, rng, f1) ==
    IF UseFallback(f1.halacha)
    THEN GetFallbackHalacha(vol1, rng)
    ELSE [halacha |-> f1.halacha, rng |-> rng]

\* selector.py:211-213, the unit of slot `second`
SecondUnit(vol2, rng, f2) ==
    IF UseFallback(f2.halacha)
    THEN GetFallbackHalacha(vol2, rng)
    ELSE [halacha |-> f2.halacha, rng |-> rng]

\* the outcome of a fresh computation: DailyPair's outcome and the two traces
Computed(dp, f1, f2) ==
    [raised |-> dp.raised, pair |-> dp.pair,
     first |-> Trace(f1), second |-> Trace(f2)]

\* selector.py:211-219, once slot `first` is settled (b1)
AssembleSecond(d, sel, f1, f2, b1) ==
    Computed(DailyPair(b1.halacha, SecondUnit(sel.vol2, b1.rng, f2).halacha,
                       GetDailySeed(d)),
             f1, f2)

\* selector.py:208-219, once both futures have returned (f1, f2)
Assemble(d, sel, f1, f2) ==
    AssembleSecond(d, sel, f1, f2, FirstUnit(sel.vol1, sel.rng, f1))

(* selector.py:180-206, once the categories are selected (sel).  The two    *)
(* fetch sequences run on two pool threads and share no state of the       *)
(* selector; future1.result() and future2.result() are both awaited before *)
(* anything else happens.                                                   *)
FreshFrom(d, src, sel) ==
    IF sel.raised # ""
    THEN [raised |-> sel.raised, pair |-> None, first |-> NoTrace, second |-> NoTrace]
    ELSE IF IsNone(sel.vol1) \/ IsNone(sel.vol2)
    THEN \* `volume.max_siman` of None in a pool thread; result() re-raises it
         [raised |-> "AttributeError", pair |-> None,
          first |-> NoTrace, second |-> NoTrace]
    ELSE Assemble(d, sel,
                  GetRandomHalachaFromVolume(src, sel.vol1, SeededRandom(d, "-1")),
                  GetRandomHalachaFromVolume(src, sel.vol2, SeededRandom(d, "-2")))

\* selector.py:177-219: the fresh computation up to the construction of the pair
FreshPair(d, src) == FreshFrom(d, src, SelectTwoVolumes(GetDailyRng(d)))

-----------------------------------------------------------------------------
(* selector.py:198-219 thread by thread.  executor.submit starts the two    *)
(* fetch sequences on two pool threads; each thread runs                    *)
(* get_random_halacha_from_volume on its own generator, one pass of the     *)
(* loop per step; the calling thread blocks in future1.result(), then in    *)
(* future2.result(), then assembles the pair.                               *)

\* a pool thread: its generator, the passes made, what it has sent and drawn,
\* and, once it has returned, the value it returned
Worker(rng, attempt, reqs, simanim, halacha, done) ==
    [rng |-> rng, attempt |-> attempt, reqs |-> reqs, simanim |-> simanim,
     halacha |-> halacha, done |-> done]

WorkerIdle == Worker(0, 0, << >>, << >>, None, FALSE)

NoResult == [raised |-> "", pair |-> None, first |-> NoTrace, second |-> NoTrace]

PoolIdle ==
    [phase |-> "idle", date |-> "", w |-> [i \in 1..2 |-> WorkerIdle],
     order |-> << >>, result |-> NoResult]

\* what future.result() hands over for a finished thread
WorkerResult(w) == Fetched(w.halacha, w.rng, w.attempt, w.reqs, w.simanim)

\* the thread after one pass of the loop that yielded a
WorkerAfter(w, a) ==
    Worker(a.rng, w.attempt + 1, w.reqs \o a.reqs, Append(w.simanim, a.siman),
           a.halacha, ~IsNone(a.halacha))

\* one step of a pool thread: a pass of the loop, or the `return None` after it
WorkerStep(src, volume, w) ==
    IF w.attempt >= MaxAttempts
    THEN [w EXCEPT !.done = TRUE]
    ELSE WorkerAfter(w, Attempt(src, volume, w.rng))

\* a mutant: the first future to complete fills slot `first` (as_completed)
FirstResultCompleted(p) == WorkerResult(p.w[p.order[1]])

\* first = future1.result()
FirstResult(p) == WorkerResult(p.w[1])

\* second = future2.result()
SecondResult(p) == WorkerResult(p.w[2])

\* selector.py:177-204: the generators are made and both futures submitted
Submit(d) ==
    /\ pool.phase = "idle"
    /\ pool' = [PoolIdle EXCEPT !.phase = "running", !.date = d,
                                !.w = [i \in 1..2 |->
                                          [WorkerIdle EXCEPT !.rng =
                                              SeededRandom(d, IF i = 1 THEN "-1"
                                                                       ELSE "-2")]]]
    /\ UNCHANGED <<memory, messages, disk, entropy, ret, prev, built, catalog,
                   callers, msgret, apart>>

\* the volume thread i works on
VolumeOf(d, i) ==
    IF i = 1 THEN SelectTwoVolumes(GetDailyRng(d)).vol1
    ELSE SelectTwoVolumes(GetDailyRng(d)).vol2

\* pool thread i makes a step while the Content Source behaves as src
Work(i, src) ==
    /\ pool.phase \in {"running", "got1"}
    /\ ~pool.w[i].done
    /\ pool' = [pool EXCEPT
                   !.w[i] = WorkerStep(src, VolumeOf(pool.date, i), pool.w[i]),
                   !.order = IF WorkerStep(src, VolumeOf(pool.date, i), pool.w[i]).done
                             THEN Append(pool.order, i) ELSE pool.order]
    /\ UNCHANGED <<memory, messages, disk, entropy, ret, prev, built, catalog,
                   callers, msgret, apart>>

\* future1.result() returns
Result1 ==
    /\ pool.phase = "running"
    /\ pool.w[1].done
    /\ pool' = [pool EXCEPT !.phase = "got1"]
    /\ UNCHANGED <<memory, messages, disk, entropy, ret, prev, built, catalog,
                   callers, msgret, apart>>

\* future2.result() returns, the executor shuts down, and lines 208-219 build
\* the pair
Result2 ==
    /\ pool.phase = "got1"
    /\ pool.w[2].done
    /\ pool' = [pool EXCEPT
                   !.phase = "done",
                   !.result = Assemble(pool.date, SelectTwoVolumes(GetDailyRng(pool.date)),
                                       FirstResult(pool), SecondResult(pool))]
    /\ UNCHANGED <<memory, messages, disk, entropy, ret, prev, built, catalog,
                   callers, msgret, apart>>

\* the computation is over; another may start
PoolDone ==
    /\ pool.phase = "done"
    /\ pool' = PoolIdle
    /\ UNCHANGED <<memory, messages, disk, entropy, ret, prev, built, catalog,
                   callers, msgret, apart>>

NameSet == {VOLUME_NAMES[i] : i \in DOMAIN VOLUME_NAMES}

\* the src of a call that sent the Content Source nothing
NotAsked == [n \in NameSet |-> "unasked"]

(* The record of a call: its date, how the Content Source behaved if it was *)
(* asked, the tier that answered, whether it returned or raised, the value  *)
(* returned, whether a snapshot was written and what the two fetch          *)
(* sequences did.                                                           *)
Call(d, src, path, raised, value, saved, first, second) ==
    [date |-> d, src |-> src, path |-> path,
     outcome |-> IF raised = "" THEN "return" ELSE "raise",
     error |-> raised, value |-> value, saved |-> saved,
     first |-> first, second |-> second]

\* no call has returned since the last step of the environment
NoCall == Call("", NotAsked, "none", "", None, FALSE, NoTrace, NoTrace)

\* the state after a call and the record of the call
Outcome(mem, msgs, dsk, call) ==
    [memory |-> mem, messages |-> msgs, disk |-> dsk, ret |-> call]

\* selector.py:226-230, once _save_cached_pair has run (sv)
AfterSave(d, src, c, f, sv) ==
    IF sv.raised # ""
    THEN Outcome(c.memory, sv.messages, sv.disk,
                 Call(d, src, "fresh", sv.raised, None, FALSE, f.first, f.second))
    ELSE Outcome(Put(c.memory, d, f.pair), sv.messages, sv.disk,
                 Call(d, src, "fresh", "", f.pair, TRUE, f.first, f.second))

\* selector.py:215-230, once the fresh computation has produced f
AfterFresh(d, src, io, dsk, c, f) ==
    IF f.raised # ""
    THEN Outcome(c.memory, c.messages, dsk,
                 Call(d, src, "fresh", f.raised, None, FALSE, f.first, f.second))
    ELSE IF ShouldSave(f.pair.first, f.pair.second)
    THEN AfterSave(d, src, c, f, SaveCachedPair(f.pair, d, io, c.messages, dsk))
    ELSE Outcome(Put(c.memory, d, f.pair), c.messages, dsk,
                 Call(d, src, "fresh", "", f.pair, FALSE, f.first, f.second))

\* selector.py:174-230, once _load_cached_pair has answered c
AfterLoad(d, src, io, dsk, c) ==
    IF c.raised # ""
    THEN Outcome(c.memory, c.messages, dsk,
                 Call(d, NotAsked, "durable", c.raised, None, FALSE, NoTrace, NoTrace))
    ELSE IF ~IsNone(c.value)
    THEN Outcome(c.memory, c.messages, dsk,
                 Call(d, NotAsked, c.tier, "", c.value, FALSE, NoTrace, NoTrace))
    ELSE AfterFresh(d, src, io, dsk, c, FreshPair(d, src))

(* The record of a get_cached_messages call: its date, whether it returned  *)
(* or raised, and the value returned: [msgs |-> the list] or None.         *)
MessagesCall(d, raised, value) ==
    [date |-> d, outcome |-> IF raised = "" THEN "return" ELSE "raise",
     error |-> raised, value |-> value]

NoMessagesCall == [date |-> "", outcome |-> "none", error |-> "", value |-> None]

\* selector.py:245-248, once _load_cached_pair has answered c
MessagesAfterLoad(d, c) ==
    IF c.raised # "" THEN MessagesCall(d, c.raised, None)
    ELSE IF d \in DOMAIN c.messages
    THEN MessagesCall(d, "", [msgs |-> c.messages[d]])
    ELSE MessagesCall(d, "", None)

\* selector.py:245-248: the two caches afterwards and the record of the call
MessagesOutcome(d, c) ==
    [memory |-> c.memory, messages |-> c.messages, call |-> MessagesAfterLoad(d, c)]

\* get_cached_messages on caches mem, msgs and snapshots dsk
GetCachedMessagesOp(d, mem, msgs, dsk) ==
    IF d \in DOMAIN msgs
    THEN [memory |-> mem, messages |-> msgs,
          call |-> MessagesCall(d, "", [msgs |-> msgs[d]])]
    ELSE MessagesOutcome(d, LoadCachedPair(d, mem, msgs, dsk))

(* HalachaSelector.get_cached_messages(for_date = d)                        *)
GetCachedMessages(d) ==
    /\ msgret' = GetCachedMessagesOp(d, memory, messages, disk).call
    /\ memory' = GetCachedMessagesOp(d, memory, messages, disk).memory
    /\ messages' = GetCachedMessagesOp(d, memory, messages, disk).messages
    /\ ret' = NoCall
    /\ UNCHANGED <<disk, entropy, prev, built>>
    /\ UNCHANGED rest

(* HalachaSelector.get_daily_pair(for_date = d) against a Content Source    *)
(* behaving as src and a file system behaving as io: the three variables   *)
(* afterwards and the record of the call.                                   *)
GetDailyPairOp(d, src, io, mem, msgs, dsk) ==
    AfterLoad(d, src, io, dsk, LoadCachedPair(d, mem, msgs, dsk))

\* the variables take the values of outcome r
Becomes(r) ==
    /\ memory' = r.memory
    /\ messages' = r.messages
    /\ disk' = r.disk
    /\ ret' = r.ret

GetDailyPair(d, src, io) ==
    /\ Becomes(GetDailyPairOp(d, src, io, memory, messages, disk))
    /\ msgret' = NoMessagesCall
    /\ UNCHANGED <<entropy, prev, built>>
    /\ UNCHANGED rest

-----------------------------------------------------------------------------
(* The environment *)

AllUp == [n \in NameSet |-> "up"]

\* a Content Source in the same mode towards every category
Uniform(mode) == [n \in NameSet |-> mode]

\* a Content Source in mode m1 towards category a, m2 towards b, up otherwise
SourceOf(a, m1, b, m2) ==
    [n \in NameSet |-> IF n = a THEN m1 ELSE IF n = b THEN m2 ELSE "up"]

SourcesOver(sel) ==
    {SourceOf(sel.vol1.volume, m1, sel.vol2.volume, m2) : m1 \in Modes, m2 \in Modes}

\* the behaviours of the Content Source explored for date d: any mode towards
\* each of the day's two categories
SourcesFor(d) == SourcesOver(SelectTwoVolumes(GetDailyRng(d)))

IoOutcomes == {"ok", "fail"}

\* a mutant: the two units are written under each other's key
SnapshotOfCrossed(p, d) ==
    SnapshotData([p EXCEPT !.first = p.second, !.second = p.first],
                 <<WelcomeMessage>> \o FormatDailyMessage(p, d).msgs)

\* the snapshot _save_cached_pair writes for pair p of date d
SnapshotOf(p, d) ==
    SnapshotData(p, <<WelcomeMessage>> \o FormatDailyMessage(p, d).msgs)

\* the snapshot a healthy earlier run of this program leaves for d
HealthyData(d) == SnapshotOf(FreshPair(d, AllUp).pair, d)

(* Files that something other than this process may leave at the snapshot   *)
(* path: a snapshot in the older format (no formatted_messages) and damaged *)
(* or hand-edited versions of snapshot h.                                   *)
FilesFrom(h) ==
    { Garbage,
      [json |-> Scalar("list")],
      [json |-> Drop(h, "formatted_messages")],
      [json |-> Drop(h, "second")],
      [json |-> [h EXCEPT !.first = Scalar("str")]],
      [json |-> [h EXCEPT !.first.volume = Drop(h.first.volume, "max_siman")]],
      [json |-> [h EXCEPT !.second = h.first]],
      [json |-> [h EXCEPT !.first.hebrew_text = Scalar("int")]],
      [json |-> Drop([h EXCEPT !.first.hebrew_text = Scalar("int")],
                     "formatted_messages")] }

ExternalFiles(d) == FilesFrom(HealthyData(d))

Entropy == {0, 1}

\* a file appears at, or replaces, the snapshot path of d
ExternalWrite(d, file) ==
    /\ disk' = Put(disk, d, file)
    /\ ret' = NoCall
    /\ msgret' = NoMessagesCall
    /\ UNCHANGED <<memory, messages, entropy, prev, built>>
    /\ UNCHANGED rest

\* the snapshot of d is deleted
RemoveFile(d) ==
    /\ d \in DOMAIN disk
    /\ disk' = Drop(disk, d)
    /\ ret' = NoCall
    /\ msgret' = NoMessagesCall
    /\ UNCHANGED <<memory, messages, entropy, prev, built>>
    /\ UNCHANGED rest

\* the process ends and a new one starts: the module-level dicts are empty again
Restart ==
    /\ memory' = << >>
    /\ messages' = << >>
    /\ entropy' \in Entropy
    /\ ret' = NoCall
    /\ msgret' = NoMessagesCall
    /\ UNCHANGED <<disk, prev, built>>
    /\ UNCHANGED rest

-----------------------------------------------------------------------------
(* get_daily_pair entered by two threads of one process.  A thread's steps  *)
(* are: _load_cached_pair; the fresh computation; in _save_cached_pair the  *)
(* assignment to _message_cache, open(cache_path, "w") (which truncates the *)
(* file) and json.dump with the close; the assignment to _memory_cache.     *)

\* a thread in get_daily_pair: where it is, its arguments, whether its load
\* missed, the pair it holds, the error it raised, and whether another thread
\* had the snapshot file open for writing while it had
Caller(pc, d, src, missed, value, raised, overlap) ==
    [pc |-> pc, date |-> d, src |-> src, missed |-> missed, value |-> value,
     raised |-> raised, overlap |-> overlap]

CallerIdle == Caller("idle", "", NotAsked, FALSE, None, "", FALSE)

\* both threads outside get_daily_pair; nobody has assigned _memory_cache yet
NoCallers == [who |-> [i \in 1..2 |-> CallerIdle], order |-> << >>]

\* a mutant: the key is only set when absent (setdefault)
StoreFreshIfAbsent(mem, d, pair) == IF d \in DOMAIN mem THEN mem ELSE Put(mem, d, pair)

\* selector.py:228, `_memory_cache[for_date.isoformat()] = pair`
StoreFresh(mem, d, pair) == Put(mem, d, pair)

\* the thread after _load_cached_pair answered c
Loaded(d, src, c) ==
    IF c.raised # "" THEN Caller("done", d, src, FALSE, None, c.raised, FALSE)
    ELSE IF ~IsNone(c.value) THEN Caller("done", d, src, FALSE, c.value, "", FALSE)
    ELSE Caller("missed", d, src, TRUE, None, "", FALSE)

\* the thread after the fresh computation produced f
ComputedBy(c, f) ==
    IF f.raised # "" THEN [c EXCEPT !.pc = "done", !.raised = f.raised]
    ELSE IF ShouldSave(f.pair.first, f.pair.second)
    THEN [c EXCEPT !.pc = "saving", !.value = f.pair]
    ELSE [c EXCEPT !.pc = "storing", !.value = f.pair]

\* thread i enters get_daily_pair(d) and runs _load_cached_pair
CallLoad(i, d, src) ==
    /\ callers.who[i].pc = "idle"
    /\ \A j \in 1..2 : callers.who[j].pc # "idle" => callers.who[j].date = d
    /\ callers' = [callers EXCEPT
                      !.who[i] = Loaded(d, src, LoadCachedPair(d, memory, messages, disk))]
    /\ memory' = LoadCachedPair(d, memory, messages, disk).memory
    /\ messages' = LoadCachedPair(d, memory, messages, disk).messages
    /\ UNCHANGED <<disk, entropy, ret, prev, built, catalog, pool, msgret, apart>>

\* selector.py:177-225
CallCompute(i) ==
    /\ callers.who[i].pc = "missed"
    /\ callers' = [callers EXCEPT
                      !.who[i] = ComputedBy(callers.who[i],
                                            FreshPair(callers.who[i].date,
                                                      callers.who[i].src))]
    /\ UNCHANGED <<memory, messages, disk, entropy, ret, prev, built, catalog, pool,
                   msgret, apart>>

\* selector.py:113-118
CallRender(i) ==
    /\ callers.who[i].pc = "saving"
    /\ messages' = SaveCachedPair(callers.who[i].value, callers.who[i].date, "ok",
                                  messages, disk).messages
    /\ callers' = [callers EXCEPT !.who[i].pc = "opening"]
    /\ UNCHANGED <<memory, disk, entropy, ret, prev, built, catalog, pool, msgret, apart>>

\* another thread has the snapshot file open for writing
OthersWriting(i) == \E j \in 1..2 : j # i /\ callers.who[j].pc = "writing"

\* selector.py:149, open(cache_path, "w"): the file is created or emptied, or
\* OSError leaves get_daily_pair
CallOpen(i, io) ==
    /\ callers.who[i].pc = "opening"
    /\ IF io = "ok"
       THEN /\ disk' = Put(disk, callers.who[i].date, Garbage)
            /\ callers' = [callers EXCEPT
                              !.who = [j \in 1..2 |->
                                  IF j = i
                                  THEN [callers.who[j] EXCEPT
                                           !.pc = "writing", !.overlap = OthersWriting(i)]
                                  ELSE IF callers.who[j].pc = "writing"
                                  THEN [callers.who[j] EXCEPT !.overlap = TRUE]
                                  ELSE callers.who[j]]]
       ELSE /\ disk' = disk
            /\ callers' = [callers EXCEPT !.who[i].pc = "done",
                                          !.who[i].value = None,
                                          !.who[i].raised = "OSError"]
    /\ UNCHANGED <<memory, messages, entropy, ret, prev, built, catalog, pool,
                   msgret, apart>>

\* what the file may hold after this thread's json.dump and close: its own
\* snapshot, or a mix of two snapshots when two threads wrote the one file
Written(c) ==
    {[json |-> SnapshotOf(c.value, c.date)]} \cup (IF c.overlap THEN {Garbage} ELSE {})

\* selector.py:150
CallWrite(i) ==
    /\ callers.who[i].pc = "writing"
    /\ \E file \in Written(callers.who[i]) :
           disk' = Put(disk, callers.who[i].date, file)
    /\ callers' = [callers EXCEPT !.who[i].pc = "storing"]
    /\ UNCHANGED <<memory, messages, entropy, ret, prev, built, catalog, pool,
                   msgret, apart>>

\* selector.py:228-230
CallStore(i) ==
    /\ callers.who[i].pc = "storing"
    /\ memory' = StoreFresh(memory, callers.who[i].date, callers.who[i].value)
    /\ callers' = [callers EXCEPT !.who[i].pc = "done",
                                  !.order = Append(callers.order, i)]
    /\ UNCHANGED <<messages, disk, entropy, ret, prev, built, catalog, pool, msgret,
                   apart>>

-----------------------------------------------------------------------------
(* subscribers.py.  The state file is absent (NoFile) or holds              *)
(* {"subscribers": [...]}: [list |-> the JSON array, in file order].        *)

\* chat ids range over 1..MaxChat
MaxChat == 3

ChatIds == 1..MaxChat

NoFile == [absent |-> TRUE]

\* the elements of a list, as set(...) collects them
Elements(list) == {list[i] : i \in DOMAIN list}

\* sorted(subscribers): the ids in increasing order
Sorted(ids) ==
    CHOOSE s \in [1..Cardinality(ids) -> ids] :
        \A i, j \in 1..Cardinality(ids) : i < j => s[i] < s[j]

\* load_subscribers
LoadSubscribers(file) ==
    IF "absent" \in DOMAIN file THEN {} ELSE Elements(file.list)

\* save_subscribers: the file afterwards
SaveSubscribers(ids) == [list |-> Sorted(ids)]

\* the outcome of a call: the file afterwards and the value returned
SubscribersOutcome(file, value) == [file |-> file, value |-> value]

\* add_subscriber
AddSubscriberOp(file, chat_id) ==
    IF chat_id \in LoadSubscribers(file)
    THEN SubscribersOutcome(file, [bool |-> FALSE])
    ELSE SubscribersOutcome(SaveSubscribers(LoadSubscribers(file) \cup {chat_id}),
                            [bool |-> TRUE])

\* a mutant: the id is discarded and the file saved whether it was there or not
RemoveSubscriberOpAlways(file, chat_id) ==
    SubscribersOutcome(SaveSubscribers(LoadSubscribers(file) \ {chat_id}),
                       [bool |-> TRUE])

\* remove_subscriber
RemoveSubscriberOp(file, chat_id) ==
    IF chat_id \notin LoadSubscribers(file)
    THEN SubscribersOutcome(file, [bool |-> FALSE])
    ELSE SubscribersOutcome(SaveSubscribers(LoadSubscribers(file) \ {chat_id}),
                            [bool |-> TRUE])

\* is_subscribed
IsSubscribedOp(file, chat_id) == chat_id \in LoadSubscribers(file)

\* get_subscriber_count
GetSubscriberCountOp(file) == Cardinality(LoadSubscribers(file))

\* the record of a call: the function, its argument (0 for none), its value
SubscribersCall(op, chat_id, value) == [op |-> op, chat_id |-> chat_id, value |-> value]

NoSubscribersCall == SubscribersCall("none", 0, [bool |-> FALSE])

AddSubscriber(chat_id) ==
    /\ subsfile' = AddSubscriberOp(subsfile, chat_id).file
    /\ subret' = SubscribersCall("add", chat_id, AddSubscriberOp(subsfile, chat_id).value)
    /\ refset' = refset \cup {chat_id}
    /\ UNCHANGED <<memory, messages, disk, entropy, ret, prev, built, catalog, pool,
                   callers, msgret, others>>

RemoveSubscriber(chat_id) ==
    /\ subsfile' = RemoveSubscriberOp(subsfile, chat_id).file
    /\ subret' = SubscribersCall("remove", chat_id,
                                 RemoveSubscriberOp(subsfile, chat_id).value)
    /\ refset' = refset \ {chat_id}
    /\ UNCHANGED <<memory, messages, disk, entropy, ret, prev, built, catalog, pool,
                   callers, msgret, others>>

IsSubscribed(chat_id) ==
    /\ subret' = SubscribersCall("is_subscribed", chat_id,
                                 [bool |-> IsSubscribedOp(subsfile, chat_id)])
    /\ UNCHANGED <<subsfile, refset>>
    /\ UNCHANGED <<memory, messages, disk, entropy, ret, prev, built, catalog, pool,
                   callers, msgret, others>>

GetSubscriberCount ==
    /\ subret' = SubscribersCall("count", 0, [int |-> GetSubscriberCountOp(subsfile)])
    /\ UNCHANGED <<subsfile, refset>>
    /\ UNCHANGED <<memory, messages, disk, entropy, ret, prev, built, catalog, pool,
                   callers, msgret, others>>

-----------------------------------------------------------------------------
(* commands.py: get_start_messages and get_today_messages.  A command asks  *)
(* the selector for the cached messages and, without usable ones, for the   *)
(* day's pair; `cached` and `asked` are the records of those two calls.     *)

\* format_error_message
ErrorMessage == [error |-> TRUE]

\* the exceptions of the model, all of them subclasses of Exception
Exceptions ==
    {"JSONDecodeError", "KeyError", "TypeError", "ValueError", "AttributeError",
     "OSError", "FileNotFoundError", "RuntimeError", "Exception",
     "DefaultCredentialsError", "TelegramError"}

\* a mutant: the commands catch what _load_cached_pair catches
CommandCatchesAsLoad(err) == Caught(err)

\* `except Exception`
CommandCatches(err) == err \in Exceptions

\* `if cached_messages:` / `if cached_messages and len(cached_messages) > 1:`
UsesCached(op, cached) ==
    /\ cached.outcome = "return"
    /\ ~IsNone(cached.value)
    /\ Len(cached.value.msgs) > (IF op = "start" THEN 0 ELSE 1)

\* the exception raised inside the try block, or ""
CommandError(op, d, cached, asked) ==
    IF cached.outcome = "raise" THEN cached.error
    ELSE IF UsesCached(op, cached) THEN ""
    ELSE IF asked.outcome = "raise" THEN asked.error
    ELSE IF IsNone(asked.value) THEN ""
    ELSE FormatDailyMessage(asked.value, d).raised

\* the list the try block returns when nothing is raised in it
CommandBody(op, d, cached, asked) ==
    IF UsesCached(op, cached)
    THEN (IF op = "start" THEN cached.value.msgs ELSE Tail(cached.value.msgs))
    ELSE (IF op = "start" THEN <<WelcomeMessage>> ELSE << >>)
         \o (IF IsNone(asked.value) THEN <<ErrorMessage>>
             ELSE FormatDailyMessage(asked.value, d).msgs)

\* the list the except clause returns
CommandFailure(op) ==
    IF op = "start" THEN <<WelcomeMessage, ErrorMessage>> ELSE <<ErrorMessage>>

\* the record of a command: which, its date, the error that escaped, the list
Command(op, d, raised, msgs) == [op |-> op, date |-> d, raised |-> raised, msgs |-> msgs]

NoCommand == Command("none", "", "", << >>)

\* get_start_messages (op = "start") and get_today_messages (op = "today")
CommandOp(op, d, cached, asked) ==
    IF CommandError(op, d, cached, asked) = ""
    THEN Command(op, d, "", CommandBody(op, d, cached, asked))
    ELSE IF CommandCatches(CommandError(op, d, cached, asked))
    THEN Command(op, d, "", CommandFailure(op))
    ELSE Command(op, d, CommandError(op, d, cached, asked), << >>)

\* the command once get_daily_pair has left the selector as g
CommandAfterPair(op, d, cached, g) ==
    /\ Becomes(g)
    /\ msgret' = cached
    /\ cmdret' = CommandOp(op, d, cached, g.ret)

\* the command once get_cached_messages has answered m
CommandAfterCached(op, d, src, io, m) ==
    IF m.call.outcome = "raise" \/ UsesCached(op, m.call)
    THEN /\ memory' = m.memory
         /\ messages' = m.messages
         /\ ret' = NoCall
         /\ msgret' = m.call
         /\ cmdret' = CommandOp(op, d, m.call, NoCall)
         /\ UNCHANGED disk
    ELSE CommandAfterPair(op, d, m.call,
                          GetDailyPairOp(d, src, io, m.memory, m.messages, disk))

\* a command run with this process's HalachaSelector
RunCommand(op, d, src, io) ==
    /\ CommandAfterCached(op, d, src, io, GetCachedMessagesOp(d, memory, messages, disk))
    /\ UNCHANGED <<entropy, prev, built, catalog, pool, callers, subscribers, fetched,
                   stateless, scripts>>

GetStartMessages(d, src, io) == RunCommand("start", d, src, io)

GetTodayMessages(d, src, io) == RunCommand("today", d, src, io)

\* the answer of a stand-in's get_daily_pair, as a record of the call
DoubleCall(d, raised, value) ==
    Call(d, NotAsked, "double", raised, value, FALSE, NoTrace, NoTrace)

\* a command run with a stand-in for the selector (the MagicMock of
\* tests/test_commands.py) that answers cached and asked, in a process
\* where no HalachaSelector has been at work
RunCommandWithDouble(op, d, cached, asked) ==
    /\ memory = << >> /\ messages = << >> /\ disk = << >>
    /\ msgret' = cached
    /\ ret' = IF cached.outcome = "raise" \/ UsesCached(op, cached) THEN NoCall ELSE asked
    /\ cmdret' = CommandOp(op, d, cached, asked)
    /\ UNCHANGED <<memory, messages, disk, entropy, prev, built, catalog, pool,
                   callers, subscribers, fetched, stateless,
                   scripts>>

-----------------------------------------------------------------------------
(* sefaria.py: fetch_halacha on the reply itself.  Here a text is the       *)
(* sequence of its characters, so that _clean_text is computed and not      *)
(* assumed; the texts of Respond above are texts already clean.  A reply is *)
(* the exception session.get or raise_for_status raised (or "") and the     *)
(* parsed body: a record holding "he", a string or a list of strings, or    *)
(* holding no "he" at all.                                                  *)

\* a word of n letters
Letters(n) == [i \in 1..n |-> "a"]

\* a character that \s matches
IsSpace(c) == c \in {" ", "\n"}

\* the index of the first ">" after position i, or 0
TagEnd(text, i) ==
    IF \E j \in (i + 1)..Len(text) : text[j] = ">"
    THEN CHOOSE j \in (i + 1)..Len(text) :
             text[j] = ">" /\ \A k \in (i + 1)..(j - 1) : text[k] # ">"
    ELSE 0

\* re.sub(r"<[^>]+>", "", text), from position i on
RECURSIVE StripTagsFrom(_, _)
StripTagsFrom(text, i) ==
    IF i > Len(text) THEN << >>
    ELSE IF text[i] = "<" /\ TagEnd(text, i) > i + 1
    THEN StripTagsFrom(text, TagEnd(text, i) + 1)
    ELSE <<text[i]>> \o StripTagsFrom(text, i + 1)

\* the index of the first character from i on that is no space, or Len + 1
SpacesEnd(text, i) ==
    IF \E j \in i..Len(text) : ~IsSpace(text[j])
    THEN CHOOSE j \in i..Len(text) :
             ~IsSpace(text[j]) /\ \A k \in i..(j - 1) : IsSpace(text[k])
    ELSE Len(text) + 1

\* re.sub(r"\s+", " ", text), from position i on
RECURSIVE CollapseSpacesFrom(_, _)
CollapseSpacesFrom(text, i) ==
    IF i > Len(text) THEN << >>
    ELSE IF IsSpace(text[i])
    THEN <<" ">> \o CollapseSpacesFrom(text, SpacesEnd(text, i))
    ELSE <<text[i]>> \o CollapseSpacesFrom(text, i + 1)

\* str.strip()
Strip(text) ==
    IF \A i \in DOMAIN text : IsSpace(text[i]) THEN << >>
    ELSE LET first == SpacesEnd(text, 1)
             last == CHOOSE j \in DOMAIN text :
                         ~IsSpace(text[j]) /\ \A k \in (j + 1)..Len(text) : IsSpace(text[k])
         IN  SubSeq(text, first, last)

\* a mutant: the text is taken as it came
CleanTextNot(text) == text

\* SefariaClient._clean_text
CleanText(text) ==
    IF text = << >> THEN << >>
    ELSE Strip(CollapseSpacesFrom(StripTagsFrom(text, 1), 1))

\* `p for p in hebrew if p`
IsTruthy(part) == part # << >>

\* " ".join(parts)
RECURSIVE Join(_)
Join(parts) ==
    IF parts = << >> THEN << >>
    ELSE IF Len(parts) = 1 THEN Head(parts)
    ELSE Head(parts) \o <<" ">> \o Join(Tail(parts))

\* " ".join(str(p) for p in hebrew if p)
JoinParts(parts) == Join(SelectSeq(parts, IsTruthy))

\* a reply: the exception of the request, or "", and the parsed body
Reply(error, data) == [error |-> error, data |-> data]

\* the body holding text he; the body holding the list of texts parts
BodyOfText(he) == [he |-> [str |-> he]]

BodyOfList(parts) == [he |-> [list |-> parts]]

\* the body Sefaria sends for a reference it does not have
BodyOfError == [error |-> "no such text"]

\* the subclasses of requests.RequestException that get or raise_for_status raise
RequestExceptions == {"ConnectionError", "Timeout", "HTTPError"}

\* get_text on a reply: the body, or None when a RequestException was caught;
\* any other exception escapes
GetTextOf(reply) ==
    IF reply.error = "" THEN [raised |-> "", data |-> reply.data]
    ELSE IF reply.error \in RequestExceptions THEN [raised |-> "", data |-> None]
    ELSE [raised |-> reply.error, data |-> None]

\* sefaria.py:96-98: data.get("he", ""), a list joined
HebrewOf(data) ==
    IF "he" \notin DOMAIN data THEN << >>
    ELSE IF "list" \in DOMAIN data.he THEN JoinParts(data.he.list)
    ELSE data.he.str

\* sefaria.py:100-115, on the cleaned text
FetchHalachaCleaned(hebrew, volume, siman, seif) ==
    IF TextTooShort([len |-> Len(hebrew)]) THEN None
    ELSE Halacha(volume, siman, seif, hebrew, SefariaUrl(volume.ref_base, siman, seif))

\* fetch_halacha given what get_text made of the reply
FetchHalachaAfter(got, volume, siman, seif) ==
    IF got.raised # "" THEN [raised |-> got.raised, value |-> None]
    ELSE IF IsNone(got.data) THEN [raised |-> "", value |-> None]
    ELSE [raised |-> "",
          value |-> FetchHalachaCleaned(CleanText(HebrewOf(got.data)),
                                        volume, siman, seif)]

\* SefariaClient.fetch_halacha when the Content Source replies with reply
FetchHalachaOf(reply, volume, siman, seif) ==
    FetchHalachaAfter(GetTextOf(reply), volume, siman, seif)

\* the record of a call of fetch_halacha
Fetch(reply, volume, siman, seif, raised, value) ==
    [reply |-> reply, volume |-> volume, siman |-> siman, seif |-> seif,
     outcome |-> IF raised = "" THEN "return" ELSE "raise", value |-> value]

NoFetch == [reply |-> Reply("", BodyOfError), volume |-> None, siman |-> 0, seif |-> 0,
            outcome |-> "none", value |-> None]

\* one call in a behaviour: the call keeps nothing for the next
FetchHalachaCall(reply, volume, siman, seif) ==
    /\ fetched = NoFetch
    /\ fetched' = Fetch(reply, volume, siman, seif,
                        FetchHalachaOf(reply, volume, siman, seif).raised,
                        FetchHalachaOf(reply, volume, siman, seif).value)
    /\ UNCHANGED <<memory, messages, disk, entropy, ret, prev, built, catalog, pool,
                   callers, msgret, subscribers, cmdret, stateless, scripts>>

-----------------------------------------------------------------------------
(* tts.py: chunk_text, on texts given character by character.               *)

\* a character of the class [.:] that ends a sentence
IsSentenceEnd(c) == c \in {".", ":"}

\* white space at position j of text that follows a sentence end
IsCut(text, j) == j > 1 /\ IsSpace(text[j]) /\ IsSentenceEnd(text[j - 1])

\* the index of the first white space from i on that follows a sentence end, or 0
SentenceCut(text, i) ==
    IF \E j \in i..Len(text) : IsCut(text, j)
    THEN CHOOSE j \in i..Len(text) :
             IsCut(text, j) /\ \A k \in i..(j - 1) : ~IsCut(text, k)
    ELSE 0

\* re.compile(r"(?<=[.:])\s+").split(text), from position i on
RECURSIVE SentencesFrom(_, _)
SentencesFrom(text, i) ==
    IF SentenceCut(text, i) = 0 THEN <<SubSeq(text, i, Len(text))>>
    ELSE <<SubSeq(text, i, SentenceCut(text, i) - 1)>>
             \o SentencesFrom(text, SpacesEnd(text, SentenceCut(text, i)))

\* the index of the first white space from i on, or Len + 1
WordEnd(text, i) ==
    IF \E j \in i..Len(text) : IsSpace(text[j])
    THEN CHOOSE j \in i..Len(text) :
             IsSpace(text[j]) /\ \A k \in i..(j - 1) : ~IsSpace(text[k])
    ELSE Len(text) + 1

\* sentence.split(), from position i on
RECURSIVE WordsFrom(_, _)
WordsFrom(text, i) ==
    IF SpacesEnd(text, i) > Len(text) THEN << >>
    ELSE <<SubSeq(text, SpacesEnd(text, i), WordEnd(text, SpacesEnd(text, i)) - 1)>>
             \o WordsFrom(text, WordEnd(text, SpacesEnd(text, i)))

\* `f"{current} {piece}".strip() if current else piece`
Candidate(current, piece) ==
    IF current # << >> THEN Strip(current \o <<" ">> \o piece) ELSE piece

\* the chunks so far and the chunk being filled
Chunking(chunks, current) == [chunks |-> chunks, current |-> current]

\* `if current: chunks.append(current)`
Flushed(st) == IF st.current # << >> THEN Append(st.chunks, st.current) ELSE st.chunks

\* tts.py:148-154, the body of `for word in words`
NextWord(st, word, max_chars) ==
    IF Len(Candidate(st.current, word)) <= max_chars
    THEN Chunking(st.chunks, Candidate(st.current, word))
    ELSE Chunking(Flushed(st), word)

RECURSIVE WordLoop(_, _, _)
WordLoop(st, words, max_chars) ==
    IF words = << >> THEN st
    ELSE WordLoop(NextWord(st, Head(words), max_chars), Tail(words), max_chars)

\* tts.py:138-156, the body of `for sentence in sentences`
NextSentence(st, sentence, max_chars) ==
    IF Len(Candidate(st.current, sentence)) <= max_chars
    THEN Chunking(st.chunks, Candidate(st.current, sentence))
    ELSE IF Len(sentence) > max_chars
    THEN WordLoop(Chunking(Flushed(st), << >>), WordsFrom(sentence, 1), max_chars)
    ELSE Chunking(Flushed(st), sentence)

RECURSIVE SentenceLoop(_, _, _)
SentenceLoop(st, sentences, max_chars) ==
    IF sentences = << >> THEN st
    ELSE SentenceLoop(NextSentence(st, Head(sentences), max_chars),
                      Tail(sentences), max_chars)

\* chunk_text on a text already stripped
ChunkStripped(text, max_chars) ==
    IF text = << >> THEN << >>
    ELSE IF Len(text) <= max_chars THEN <<text>>
    ELSE Flushed(SentenceLoop(Chunking(<< >>, << >>), SentencesFrom(text, 1), max_chars))

\* chunk_text
ChunkText(text, max_chars) == ChunkStripped(Strip(text), max_chars)

\* the record of a call of chunk_text
Chunked(text, max_chars, chunks) ==
    [called |-> TRUE, text |-> text, max_chars |-> max_chars, chunks |-> chunks]

NoChunked == [called |-> FALSE, text |-> << >>, max_chars |-> 0, chunks |-> << >>]

\* one call in a behaviour: the call keeps nothing for the next
ChunkTextCall(text, max_chars) ==
    /\ ~chunked.called
    /\ chunked' = Chunked(text, max_chars, ChunkText(text, max_chars))
    /\ UNCHANGED <<memory, messages, disk, entropy, ret, prev, built, catalog, pool,
                   callers, msgret, subscribers, cmdret, fetched, laidout, voiced,
                   scripts>>

NoLaidOut ==
    [called |-> FALSE, op |-> "none", done |-> TRUE, max_len |-> 0,
     chunks |-> << >>, lens |-> << >>]

NoVoiced ==
    [called |-> FALSE, client |-> "given", env1 |-> << >>, env2 |-> << >>,
     raised |-> "", logged |-> FALSE, failed |-> "", sent |-> << >>, skipped |-> << >>]

InitStateless ==
    /\ chunked = NoChunked
    /\ laidout = NoLaidOut
    /\ voiced = NoVoiced

-----------------------------------------------------------------------------
(* formatter.py: split_text and the messages of a pairing, character by     *)
(* character.  The markup of a message is modelled by its length: Markup(n) *)
(* stands for n characters that are not part of the unit's text.            *)

MAX_MESSAGE_LENGTH == 4000

\* formatter.py:54, the characters `available` keeps in reserve
Reserve == 100

\* the characters of title besides href, volume_he and ref_display
TitleMarkupChars == 30

\* the characters of link besides href
LinkMarkupChars == 28

\* the characters of header, date_str (dd/mm/yyyy) included
HeaderChars == 39

\* the characters of " (...)\n\n" after the title of a message that continues
ContinuedChars == 9

Markup(n) == [i \in 1..n |-> "m"]

\* text.rfind(" ", 0, max_len), counted from 1: the last blank among the first
\* max_len characters, or 0
RFindBlank(text, max_len) ==
    IF \E j \in 1..max_len : text[j] = " "
    THEN CHOOSE j \in 1..max_len :
             text[j] = " " /\ \A k \in (j + 1)..max_len : text[k] # " "
    ELSE 0

\* split_at: the number of characters of the next chunk (max_len < Len(text))
SplitAt(text, max_len) ==
    IF RFindBlank(text, max_len) = 0 THEN max_len ELSE RFindBlank(text, max_len) - 1

\* str.lstrip()
LStrip(text) == SubSeq(text, SpacesEnd(text, 1), Len(text))

\* the chunks returned and whether the loop ended within the passes allowed
Split(chunks, done) == [chunks |-> chunks, done |-> done]

\* formatter.py:25-33, `while text:`, with the chunks so far; a loop still
\* running after `passes` passes is reported as not done
RECURSIVE SplitLoop(_, _, _, _)
SplitLoop(text, max_len, passes, chunks) ==
    IF text = << >> THEN Split(chunks, TRUE)
    ELSE IF Len(text) <= max_len THEN Split(Append(chunks, text), TRUE)
    ELSE IF passes = 0 THEN Split(chunks, FALSE)
    ELSE SplitLoop(LStrip(SubSeq(text, SplitAt(text, max_len) + 1, Len(text))),
                   max_len, passes - 1,
                   Append(chunks, SubSeq(text, 1, SplitAt(text, max_len))))

\* split_text, for max_len of 1 or more
SplitText(text, max_len) ==
    IF Len(text) <= max_len THEN Split(<<text>>, TRUE)
    ELSE SplitLoop(text, max_len, Len(text) + 1, << >>)

\* the number of digits of a locator
Digits(n) == IF n < 10 THEN 1 ELSE IF n < 100 THEN 2 ELSE 3

\* the length of a link <<web url, ref_base, locators...>> written out
UrlLen(url) ==
    Len(url[1]) + 1 + Len(url[2])
        + (IF Len(url) >= 3 THEN 1 + Digits(url[3]) ELSE 0)
        + (IF Len(url) >= 4 THEN 1 + Digits(url[4]) ELSE 0)

\* formatter.py:43, the length of ref_display for a unit with a seif
RefDisplayLen(halacha) == 11 + Digits(halacha.siman) + Digits(halacha.seif)

\* formatter.py:47
Title(halacha) ==
    Markup(TitleMarkupChars + UrlLen(halacha.sefaria_url)
               + Len(halacha.volume.volume_he) + RefDisplayLen(halacha))

\* formatter.py:50-51: header, title and "\n\n"
Base(halacha, with_date) ==
    Markup(IF with_date THEN HeaderChars ELSE 0) \o Title(halacha) \o Markup(2)

\* formatter.py:52: "\n\n" and link
Footer(halacha) == Markup(2 + LinkMarkupChars + UrlLen(halacha.sefaria_url))

\* a mutant: the whole message length is given to the text
AvailableWhole(base, footer) == MAX_MESSAGE_LENGTH

\* formatter.py:54
Available(base, footer) == MAX_MESSAGE_LENGTH - Len(base) - Len(footer) - Reserve

\* formatter.py:58-62, message i of the chunks
ChunkMessage(halacha, with_date, chunks, i) ==
    (IF i = 1 THEN Base(halacha, with_date)
     ELSE Title(halacha) \o Markup(ContinuedChars))
        \o chunks[i]
        \o (IF i = Len(chunks) THEN Footer(halacha) ELSE << >>)

\* formatter.py:57-63, given what split_text returned
MessagesOfChunks(halacha, with_date, split) ==
    [msgs |-> [i \in DOMAIN split.chunks |->
                   ChunkMessage(halacha, with_date, split.chunks, i)],
     done |-> split.done]

\* format_halacha_messages, the text a sequence of characters
HalachaMessages(halacha, with_date) ==
    MessagesOfChunks(halacha, with_date,
                     SplitText(halacha.hebrew_text,
                               Available(Base(halacha, with_date), Footer(halacha))))

\* format_daily_message, given the messages of its two units
DailyOfBoth(m1, m2) == [msgs |-> m1.msgs \o m2.msgs, done |-> m1.done /\ m2.done]

\* format_daily_message
DailyMessages(pair) ==
    DailyOfBoth(HalachaMessages(pair.first, TRUE), HalachaMessages(pair.second, FALSE))

\* the lengths of the messages
Lengths(msgs) == [i \in DOMAIN msgs |-> Len(msgs[i])]

\* the record of a call: of split_text with its chunks, or of
\* format_daily_message with the lengths of its messages
LaidOut(op, done, max_len, chunks, lens) ==
    [called |-> TRUE, op |-> op, done |-> done, max_len |-> max_len,
     chunks |-> chunks, lens |-> lens]

\* one call in a behaviour: the call keeps nothing for the next
SplitTextCall(text, max_len) ==
    /\ ~laidout.called
    /\ laidout' = LaidOut("split_text", SplitText(text, max_len).done, max_len,
                          SplitText(text, max_len).chunks, << >>)
    /\ UNCHANGED <<memory, messages, disk, entropy, ret, prev, built, catalog, pool,
                   callers, msgret, subscribers, cmdret, fetched, chunked, voiced,
                   scripts>>

FormatDailyMessageCall(pair) ==
    /\ ~laidout.called
    /\ laidout' = LaidOut("format_daily_message", DailyMessages(pair).done, 0, << >>,
                          Lengths(DailyMessages(pair).msgs))
    /\ UNCHANGED <<memory, messages, disk, entropy, ret, prev, built, catalog, pool,
                   callers, msgret, subscribers, cmdret, fetched, chunked, voiced,
                   scripts>>

-----------------------------------------------------------------------------
(* tts.py: send_voice_for_pair.  What lies outside the program is given as  *)
(* input: whether a client is passed in or its creation succeeds, and for   *)
(* each of the two units whether its audio is cached and readable, whether  *)
(* the synthesis of a chunk raises, whether the audio cache can be written, *)
(* and whether bot.send_voice raises.                                       *)

\* the outcome of a step: the exception it raised (or "") and whether it
\* yielded audio
Audio(raised, audio) == [raised |-> raised, audio |-> audio]

\* HebrewTTSClient.synthesize_text: an exception of a chunk is caught and
\* logged, and None returned
SynthesizeText(tts) == IF tts = "ok" THEN Audio("", TRUE) ELSE Audio("", FALSE)

\* tts.py:85-89, once synthesize_text has returned
AfterSynthesis(synth, write) ==
    IF synth.audio /\ write = "fail" THEN Audio("OSError", FALSE) ELSE synth

\* HebrewTTSClient.get_or_generate_audio
GetOrGenerateAudio(env) ==
    IF env.cache = "hit" THEN Audio("", TRUE)
    ELSE IF env.cache = "unreadable" THEN Audio("OSError", FALSE)
    ELSE AfterSynthesis(SynthesizeText(env.tts), env.write)

\* the course of the try block: the exception raised in it (or ""), the
\* labels of the voice messages sent, and the units skipped for want of audio
Voice(raised, sent, skipped) == [raised |-> raised, sent |-> sent, skipped |-> skipped]

\* tts.py:205-221, the body of `for halacha, cache_key, label in halachot`,
\* given the audio of the unit
VoiceOfAudio(v, label, audio, send) ==
    IF audio.raised # "" THEN Voice(audio.raised, v.sent, v.skipped)
    ELSE IF ~audio.audio THEN Voice("", v.sent, Append(v.skipped, label))
    ELSE IF send = "raise" THEN Voice("TelegramError", v.sent, v.skipped)
    ELSE Voice("", Append(v.sent, label), v.skipped)

\* the loop goes on to a unit only if nothing was raised before it
VoiceOfUnit(v, label, env) ==
    IF v.raised # "" THEN v
    ELSE VoiceOfAudio(v, label, GetOrGenerateAudio(env), env.send)

\* tts.py:196-223, the try block
VoiceTry(client, env1, env2) ==
    IF client = "raise" THEN Voice("DefaultCredentialsError", << >>, << >>)
    ELSE VoiceOfUnit(VoiceOfUnit(Voice("", << >>, << >>), 1, env1), 2, env2)

\* a mutant: only the errors of the file system are caught
VoiceCatchesOSError(err) == err = "OSError"

\* `except Exception`
VoiceCatches(err) == err \in Exceptions

\* the record of a call: its inputs, the exception that escaped, whether
\* logger.exception was called, and the course of the try block
Voiced(client, env1, env2, v) ==
    [called |-> TRUE, client |-> client, env1 |-> env1, env2 |-> env2,
     raised |-> IF v.raised # "" /\ ~VoiceCatches(v.raised) THEN v.raised ELSE "",
     logged |-> v.raised # "" /\ VoiceCatches(v.raised),
     failed |-> v.raised, sent |-> v.sent, skipped |-> v.skipped]

\* send_voice_for_pair; one call in a behaviour
SendVoiceForPair(client, env1, env2) ==
    /\ ~voiced.called
    /\ voiced' = Voiced(client, env1, env2, VoiceTry(client, env1, env2))
    /\ UNCHANGED <<memory, messages, disk, entropy, ret, prev, built, catalog, pool,
                   callers, msgret, subscribers, cmdret, fetched, chunked, laidout,
                   scripts>>

-----------------------------------------------------------------------------
(* scripts/poll_commands.py.  The state file is absent (NoFile) or holds    *)
(* {"last_update_id": n}.  A run is determined by what it meets: whether   *)
(* the configuration loads, what delete_webhook raises, the errors of the   *)
(* get_updates attempts that fail, and the batch Telegram returns.  An     *)
(* update is                                                               *)
(* [update_id, text, chat_id, sends]: text is "none" (no message or no     *)
(* text), "plain" (no leading "/") or the command; sends tells whether a   *)
(* send inside handle_command raises.  The selector and the sends are seen *)
(* only through `sends`; the subscribers file is the one of subscribers.py. *)

\* update ids range over 1..MaxUpdateId
MaxUpdateId == 3

\* max_retries of poll_and_respond
MaxRetries == 3

\* load_state: 0 without a file
LoadState(file) == IF "absent" \in DOMAIN file THEN 0 ELSE file.last_update_id

\* save_state: the file afterwards
SaveState(last_update_id) == [last_update_id |-> last_update_id]

\* the commands handle_command answers, and one it ignores
PollCommands == {"/start", "/today", "/info", "/subscribe", "/unsubscribe", "/other"}

\* the update carries a command: `text.startswith("/")`
IsCommand(update) == update.text \in PollCommands

\* the subscribers file after handle_command(bot, chat_id, command, ...)
HandledFile(file, chat_id, command) ==
    IF command = "/start" THEN AddSubscriberOp(file, chat_id).file
    ELSE IF command = "/subscribe"
    THEN (IF IsSubscribedOp(file, chat_id) THEN file
          ELSE AddSubscriberOp(file, chat_id).file)
    ELSE IF command = "/unsubscribe" THEN RemoveSubscriberOp(file, chat_id).file
    ELSE file

\* handle_command reached its except clause: a send raised (an unknown
\* command sends nothing)
HandlerFailed(update) == update.text # "/other" /\ update.sends = "fail"

\* a mutant: the id of the update at hand is taken
NewLastUpdateIdLatest(new_last_update_id, update_id) == update_id

\* poll_commands.py:232, max(new_last_update_id, update.update_id)
NewLastUpdateId(new_last_update_id, update_id) ==
    IF update_id > new_last_update_id THEN update_id ELSE new_last_update_id

\* what the loop over the updates has come to
Processed(new_last_update_id, file, handled, failed) ==
    [new_last_update_id |-> new_last_update_id, file |-> file,
     handled |-> handled, failed |-> failed]

\* poll_commands.py:231-243, from the i-th update on
RECURSIVE ProcessUpdates(_, _, _)
ProcessUpdates(updates, i, p) ==
    IF i > Len(updates) THEN p
    ELSE IF ~IsCommand(updates[i])
    THEN ProcessUpdates(updates, i + 1,
             [p EXCEPT !.new_last_update_id =
                           NewLastUpdateId(p.new_last_update_id, updates[i].update_id)])
    ELSE ProcessUpdates(updates, i + 1,
             Processed(NewLastUpdateId(p.new_last_update_id, updates[i].update_id),
                       HandledFile(p.file, updates[i].chat_id, updates[i].text),
                       p.handled + 1,
                       p.failed + (IF HandlerFailed(updates[i]) THEN 1 ELSE 0)))

\* `except (TimedOut, NetworkError)`
PollRetries(err) == err \in {"TimedOut", "NetworkError"}

\* poll_commands.py:201-222: errors are those of the attempts that fail, in
\* order; yields "updates", "gaveup" (return True) or "raise", and the attempts
RECURSIVE GetUpdates(_, _)
GetUpdates(errors, attempt) ==
    IF attempt > Len(errors) THEN [outcome |-> "updates", attempts |-> attempt]
    ELSE IF ~PollRetries(errors[attempt])
    THEN [outcome |-> "raise", attempts |-> attempt]
    ELSE IF attempt < MaxRetries THEN GetUpdates(errors, attempt + 1)
    ELSE [outcome |-> "gaveup", attempts |-> attempt]

\* the record of a run: how it ended, the id it loaded, the attempts made,
\* the ids received, the commands handled and how many handlers failed
Polled(outcome, value, before, attempts, ids, handled, failed) ==
    [outcome |-> outcome, value |-> value, before |-> before, attempts |-> attempts,
     ids |-> ids, handled |-> handled, failed |-> failed]

NoPolled == Polled("none", FALSE, 0, 0, << >>, 0, 0)

\* the ids of a batch, in order
IdsOf(updates) == [i \in DOMAIN updates |-> updates[i].update_id]

\* poll_commands.py:224-248, once get_updates has returned the batch
PollBatch(state, subs, attempts, updates, p) ==
    [statefile |-> IF p.new_last_update_id > LoadState(state)
                   THEN SaveState(p.new_last_update_id) ELSE state,
     subsfile |-> p.file,
     polled |-> Polled("return", TRUE, LoadState(state), attempts, IdsOf(updates),
                       p.handled, p.failed)]

\* a run that leaves both files as they are
PollLeaves(state, subs, outcome, value, attempts) ==
    [statefile |-> state, subsfile |-> subs,
     polled |-> Polled(outcome, value, LoadState(state), attempts, << >>, 0, 0)]

\* poll_commands.py:200-248, once get_updates has been tried (g)
PollAfterUpdates(state, subs, env, g) ==
    IF g.outcome = "raise" THEN PollLeaves(state, subs, "raise", FALSE, g.attempts)
    ELSE IF g.outcome = "gaveup" THEN PollLeaves(state, subs, "return", TRUE, g.attempts)
    ELSE IF env.updates = << >> THEN PollLeaves(state, subs, "return", TRUE, g.attempts)
    ELSE PollBatch(state, subs, g.attempts, env.updates,
                   ProcessUpdates(env.updates, 1,
                                  Processed(LoadState(state), subs, 0, 0)))

\* poll_and_respond
PollAndRespondOp(state, subs, env) ==
    IF env.config = "bad" THEN PollLeaves(state, subs, "return", FALSE, 0)
    ELSE IF env.webhook # "ok" /\ ~PollRetries(env.webhook)
    THEN \* poll_commands.py:193-198: delete_webhook raised something else
         PollLeaves(state, subs, "raise", FALSE, 0)
    ELSE PollAfterUpdates(state, subs, env, GetUpdates(env.errors, 1))

PollAndRespond(env) ==
    /\ statefile' = PollAndRespondOp(statefile, subsfile, env).statefile
    /\ subsfile' = PollAndRespondOp(statefile, subsfile, env).subsfile
    /\ refset' = LoadSubscribers(PollAndRespondOp(statefile, subsfile, env).subsfile)
    /\ polled' = PollAndRespondOp(statefile, subsfile, env).polled
    /\ UNCHANGED <<memory, messages, disk, entropy, ret, prev, built, catalog, pool,
                   callers, msgret, subret, cmdret, fetched, stateless, cast, spoken,
                   published>>

-----------------------------------------------------------------------------
(* bot.py: send_daily_broadcast.  A broadcast is determined by the selector *)
(* (get_daily_pair for today), the subscribers file and what the sends     *)
(* meet: env.channel[i] tells how the i-th channel send ends ("ok",        *)
(* "falsy": a result without message_id, "raise"), env.rank is the order   *)
(* in which a set of chat ids is iterated, env.failing[s] the number of    *)
(* the message whose send to subscriber s raises (0: none).  A send is     *)
(* [to, chat, msg]: message number msg to the channel or to a subscriber.  *)

\* TELEGRAM_CHAT_ID: a numeric chat id or a channel user name
ChannelIds == {[int |-> 1], [name |-> "@channel"]}

\* int(channel_id) raises ValueError for a user name
IntRaises(channel_id) == "name" \in DOMAIN channel_id

Send(to, chat, msg) == [to |-> to, chat |-> chat, msg |-> msg]

\* a mutant: the result of a channel send is not looked at
RECURSIVE ChannelSendsUnchecked(_, _, _, _)
ChannelSendsUnchecked(n, outcomes, i, sent) ==
    IF i > n THEN [ok |-> TRUE, raised |-> FALSE, sent |-> sent]
    ELSE IF outcomes[i] = "raise" THEN [ok |-> FALSE, raised |-> TRUE, sent |-> sent]
    ELSE IF outcomes[i] = "falsy" THEN ChannelSendsUnchecked(n, outcomes, i + 1, sent)
    ELSE ChannelSendsUnchecked(n, outcomes, i + 1, Append(sent, Send("channel", 0, i)))

\* bot.py:212-226 from message i on: the sends made and whether all went
RECURSIVE ChannelSends(_, _, _, _)
ChannelSends(n, outcomes, i, sent) ==
    IF i > n THEN [ok |-> TRUE, raised |-> FALSE, sent |-> sent]
    ELSE IF outcomes[i] = "raise" THEN [ok |-> FALSE, raised |-> TRUE, sent |-> sent]
    ELSE IF outcomes[i] = "falsy" THEN [ok |-> FALSE, raised |-> FALSE, sent |-> sent]
    ELSE ChannelSends(n, outcomes, i + 1, Append(sent, Send("channel", 0, i)))

\* bot.py:231-237 for one subscriber, from message i on
RECURSIVE MessagesTo(_, _, _, _, _)
MessagesTo(subscriber_id, n, failing, i, sent) ==
    IF i > n THEN [raised |-> FALSE, sent |-> sent]
    ELSE IF failing = i THEN [raised |-> TRUE, sent |-> sent]
    ELSE MessagesTo(subscriber_id, n, failing, i + 1,
                    Append(sent, Send("subscriber", subscriber_id, i)))

\* bot.py:228-243 from the k-th subscriber on: the sends and failed_subscribers
RECURSIVE SubscriberSends(_, _, _, _, _)
SubscriberSends(order, k, n, failing, b) ==
    IF k > Len(order) THEN b
    ELSE SubscriberSends(order, k + 1, n, failing,
             [sent |-> MessagesTo(order[k], n, failing[order[k]], 1, b.sent).sent,
              failed |-> IF MessagesTo(order[k], n, failing[order[k]], 1, b.sent).raised
                         THEN Append(b.failed, order[k]) ELSE b.failed])

\* a mutant: the channel's id stays among the subscribers
DiscardChannelNot(subs, channel_id) == subs

\* bot.py:205, subscribers.discard(int(channel_id) if channel_id else 0)
DiscardChannel(subs, channel_id) == subs \ {channel_id.int}

\* the record of a broadcast: the value returned, the sends in order, the
\* subscribers that failed, and what it met
Cast(result, stage, sent, failed, subs, n, env) ==
    [called |-> TRUE, result |-> result, stage |-> stage, sent |-> sent,
     failed |-> failed, subs |-> subs, n |-> n, env |-> env]

NoEnv == [channel_id |-> [int |-> 0], channel |-> << >>, rank |-> << >>,
          failing |-> << >>, tts |-> FALSE, unified |-> "off"]

\* `for subscriber_id in subscribers`: the ids of the set in iteration order
Iterated(subs, rank) == SelectSeq(rank, LAMBDA id : id \in subs)

NoCast ==
    [called |-> FALSE, result |-> FALSE, stage |-> "none", sent |-> << >>,
     failed |-> << >>, subs |-> {}, n |-> 0, env |-> NoEnv]

\* bot.py:228-256, once every channel message is sent (c): the subscribers,
\* then the voice messages and the unified channel, which raise nothing
BroadcastToSubscribers(subs, n, env, c) ==
    LET b == SubscriberSends(Iterated(subs, env.rank), 1, n, env.failing,
                             [sent |-> c.sent, failed |-> << >>])
    IN  Cast(TRUE, "done", b.sent, b.failed, subs, n, env)

\* bot.py:210-226, once the messages (n of them) and the subscribers are there
BroadcastToChannel(subs, n, env, c) ==
    IF ~c.ok
    THEN Cast(FALSE, "channel", c.sent, << >>, subs, n, env)
    ELSE BroadcastToSubscribers(subs, n, env, c)

\* bot.py:201-226, once get_daily_pair has returned the pair
BroadcastPair(d, pair, file, env) ==
    IF FormatDailyMessage(pair, d).raised # ""
    THEN Cast(FALSE, "format", << >>, << >>, {}, 0, env)
    ELSE IF IntRaises(env.channel_id)
    THEN Cast(FALSE, "subscribers", << >>, << >>, LoadSubscribers(file),
              Len(FormatDailyMessage(pair, d).msgs), env)
    ELSE BroadcastToChannel(DiscardChannel(LoadSubscribers(file), env.channel_id),
                            Len(FormatDailyMessage(pair, d).msgs), env,
                            ChannelSends(Len(FormatDailyMessage(pair, d).msgs),
                                         env.channel, 1, << >>))

\* send_daily_broadcast, once get_daily_pair has ended as call
SendDailyBroadcastOp(d, call, file, env) ==
    IF call.outcome = "raise" THEN Cast(FALSE, "pair", << >>, << >>, {}, 0, env)
    ELSE IF IsNone(call.value) THEN Cast(FALSE, "pair", << >>, << >>, {}, 0, env)
    ELSE BroadcastPair(d, call.value, file, env)

SendDailyBroadcast(d, src, io, env) ==
    /\ ~cast.called
    /\ Becomes(GetDailyPairOp(d, src, io, memory, messages, disk))
    /\ msgret' = NoMessagesCall
    /\ cast' = SendDailyBroadcastOp(d, GetDailyPairOp(d, src, io, memory, messages,
                                                     disk).ret,
                                    subsfile, env)
    /\ UNCHANGED <<entropy, prev, built, catalog, pool, callers, subscribers, cmdret,
                   fetched, stateless, statefile, polled, spoken, published>>

-----------------------------------------------------------------------------
(* tts.py: the audio cache.  AUDIO_CACHE_DIR holds one file per cache key;  *)
(* a file is known by the text its audio was synthesized from.  A call of  *)
(* send_voice_for_pair is given the date, the texts of the two units of    *)
(* the pairing, and for each unit the one step that fails, if any: "tts"   *)
(* (synthesis yields nothing), "read" (the cached file cannot be read),    *)
(* "write" (the cache cannot be written), "send" (bot.send_voice raises).  *)

NoAudio == "none"

\* f"audio_{today_str}_{slot}"
AudioKey(d, slot) == <<d, slot>>

\* what get_or_generate_audio yields: the exception raised (or ""), the
\* text the returned audio was synthesized from (NoAudio for None), and
\* the files afterwards
Generated(raised, from, files) == [raised |-> raised, from |-> from, files |-> files]

\* HebrewTTSClient.get_or_generate_audio(text, cache_key)
AudioOf(files, text, cache_key, fails) ==
    IF files[cache_key] # NoAudio
    THEN IF fails = "read" THEN Generated("OSError", NoAudio, files)
         ELSE Generated("", files[cache_key], files)
    ELSE IF fails = "tts" THEN Generated("", NoAudio, files)
    ELSE IF fails = "write" THEN Generated("OSError", NoAudio, files)
    ELSE Generated("", text, [files EXCEPT ![cache_key] = text])

\* the course of the try block of send_voice_for_pair over the cache: the
\* exception raised, the voice messages sent (slot and the text the audio
\* was synthesized from), and the files
Spoken(raised, sent, files) == [raised |-> raised, sent |-> sent, files |-> files]

\* tts.py:205-221, the body of the loop for the unit of a slot
SpeakUnit(v, d, slot, text, fails) ==
    IF v.raised # "" THEN v
    ELSE LET audio == AudioOf(v.files, text, AudioKey(d, slot), fails)
         IN  IF audio.raised # "" THEN Spoken(audio.raised, v.sent, audio.files)
             ELSE IF audio.from = NoAudio THEN Spoken("", v.sent, audio.files)
             ELSE IF fails = "send" THEN Spoken("TelegramError", v.sent, audio.files)
             ELSE Spoken("", Append(v.sent, [slot |-> slot, from |-> audio.from]),
                         audio.files)

\* tts.py:196-223
SpeakPair(files, d, texts, fails) ==
    SpeakUnit(SpeakUnit(Spoken("", << >>, files), d, 1, texts[1], fails[1]),
              d, 2, texts[2], fails[2])

NoSpoken ==
    [called |-> FALSE, date |-> "", texts |-> << >>, sent |-> << >>,
     files |-> [k \in Dates \X {1, 2} |-> NoAudio]]

\* send_voice_for_pair with a client given, for the pairing whose units
\* have these texts
SendVoiceForPairOn(d, texts, fails) ==
    LET v == SpeakPair(spoken.files, d, texts, fails)
    IN  /\ spoken' = [called |-> TRUE, date |-> d, texts |-> texts,
                      sent |-> v.sent, files |-> v.files]
        /\ UNCHANGED <<memory, messages, disk, entropy, ret, prev, built, catalog,
                       pool, callers, msgret, subscribers, cmdret, fetched, stateless,
                       statefile, polled, cast, published>>

-----------------------------------------------------------------------------
(* unified/publisher.py: publish_text.  A call is determined by the         *)
(* settings (PUBLISH_ENABLED, UNIFIED_CHANNEL_ID, UNIFIED_BOT_TOKEN) and by *)
(* whether entering `async with bot` raises and by what each send attempt  *)
(* meets: "ok", "TelegramError", or another exception ("Exception").       *)

MAX_RETRIES == 3

\* is_unified_channel_enabled
IsUnifiedChannelEnabled(env) == env.enabled /\ env.channel /\ env.token

\* the outcome of publish_text: what it returned, the exception that
\* escaped (or ""), and the number of send attempts made
Published(result, raised, attempts) ==
    [result |-> result, raised |-> raised, attempts |-> attempts]

\* a mutant: the loop goes on after a success
PublishAttemptsAll(env, attempt) ==
    Published(\E i \in attempt..MAX_RETRIES : env.outcomes[i] = "ok", "", MAX_RETRIES)

\* publisher.py:66-83, `for attempt in range(1, MAX_RETRIES + 1)` from this
\* attempt on
RECURSIVE PublishAttempts(_, _)
PublishAttempts(env, attempt) ==
    IF attempt > MAX_RETRIES THEN Published(FALSE, "", MAX_RETRIES)
    ELSE IF env.outcomes[attempt] = "ok" THEN Published(TRUE, "", attempt)
    ELSE IF env.outcomes[attempt] = "TelegramError"
    THEN PublishAttempts(env, attempt + 1)
    ELSE Published(FALSE, env.outcomes[attempt], attempt)

\* publish_text
PublishTextOp(env) ==
    IF ~IsUnifiedChannelEnabled(env) THEN Published(FALSE, "", 0)
    ELSE IF ~env.token \/ ~env.channel THEN Published(FALSE, "", 0)
    ELSE IF env.init # "ok" THEN Published(FALSE, env.init, 0)
    ELSE PublishAttempts(env, 1)

NoPublished == [called |-> FALSE, env |-> << >>, result |-> FALSE, raised |-> "",
                attempts |-> 0]

\* publish_text; one call in a behaviour
PublishText(env) ==
    LET p == PublishTextOp(env)
    IN  /\ ~published.called
        /\ published' = [called |-> TRUE, env |-> env, result |-> p.result,
                         raised |-> p.raised, attempts |-> p.attempts]
        /\ UNCHANGED <<memory, messages, disk, entropy, ret, prev, built, catalog,
                       pool, callers, msgret, subscribers, cmdret, fetched, stateless,
                       statefile, polled, cast, spoken>>

InitScripts ==
    /\ statefile = NoFile
    /\ polled = NoPolled
    /\ cast = NoCast
    /\ spoken = NoSpoken
    /\ published = NoPublished

-----------------------------------------------------------------------------
(* The specification *)

NotBuilt ==
    [done |-> FALSE, first |-> None, second |-> None, raised |-> "", pair |-> None]

\* a new process on a clean machine: nothing cached, nothing called
InitSelector ==
    /\ memory = << >>
    /\ messages = << >>
    /\ disk = << >>
    /\ entropy \in Entropy
    /\ ret = NoCall
    /\ prev = NoCall
    /\ built = NotBuilt

\* nothing else is going on
InitRest ==
    /\ pool = PoolIdle
    /\ callers = NoCallers
    /\ msgret = NoMessagesCall
    /\ subsfile = NoFile
    /\ refset = {}
    /\ subret = NoSubscribersCall
    /\ cmdret = NoCommand
    /\ fetched = NoFetch
    /\ InitStateless
    /\ InitScripts

Init ==
    /\ InitSelector
    /\ catalog = CatalogFile(Catalog)
    /\ InitRest

\* no date other than d has anything cached: one process serves one date
Solo(d) == (DOMAIN memory) \cup (DOMAIN messages) \cup (DOMAIN disk) \subseteq {d}

Next ==
    \/ \E d \in Dates : Solo(d) /\ \E src \in SourcesFor(d) : \E io \in IoOutcomes :
           GetDailyPair(d, src, io)
    \/ \E d \in Dates : Solo(d) /\ \E file \in ExternalFiles(d) : ExternalWrite(d, file)
    \/ \E d \in Dates : RemoveFile(d)
    \/ Restart

Spec == Init /\ [][Next]_vars

-----------------------------------------------------------------------------
(* DailyPair on its own: any two units, of categories that share a name or  *)
(* not, whatever their other attributes.                                    *)

TestVolumes ==
    { Volume(n, n, r, MaxSiman) : n \in {"Orach Chaim", "Yoreh De'ah"},
                                  r \in {"Shulchan_Arukh,_Orach_Chayim",
                                         "Shulchan_Arukh,_Yoreh_De'ah"} }

TestUnits ==
    { Halacha(v, siman, seif, text, SefariaUrl(v.ref_base, siman, seif)) :
        v \in TestVolumes, siman \in 1..MaxSiman, seif \in 1..SeifsPerSiman,
        text \in {FallbackText, RealText("Shulchan_Arukh", 1, 1, MinTextLen, FALSE)} }

\* DailyPair(first=first, second=second, date_seed=seed), called directly
Construct(first, second, seed) ==
    /\ ~built.done
    /\ built' = [done |-> TRUE, first |-> first, second |-> second,
                 raised |-> DailyPair(first, second, seed).raised,
                 pair |-> DailyPair(first, second, seed).pair]
    /\ UNCHANGED <<memory, messages, disk, entropy, ret, prev, msgret>>
    /\ UNCHANGED rest

NextModels ==
    \E first \in TestUnits : \E second \in TestUnits : \E seed \in Dates :
        Construct(first, second, seed)

SpecModels == Init /\ [][NextModels]_vars

-----------------------------------------------------------------------------
(* Independent computations: a call, then a new process on a machine whose  *)
(* caches are empty, then a call again.                                     *)

\* a second, independent process: nothing cached in memory or on disk
FreshStart ==
    /\ ret.path = "fresh"
    /\ prev = NoCall
    /\ memory' = << >>
    /\ messages' = << >>
    /\ disk' = << >>
    /\ entropy' \in Entropy
    /\ prev' = ret
    /\ ret' = NoCall
    /\ msgret' = NoMessagesCall
    /\ UNCHANGED built
    /\ UNCHANGED rest

\* the Content Source answers the second process as it answered the first
SameAnswers(d, src) == prev = NoCall \/ (d = prev.date /\ src = prev.src)

NextRerun ==
    \/ \E d \in Dates : Solo(d) /\ \E src \in SourcesFor(d) : \E io \in IoOutcomes :
           SameAnswers(d, src) /\ GetDailyPair(d, src, io)
    \/ FreshStart

SpecRerun == Init /\ [][NextRerun]_vars

-----------------------------------------------------------------------------
(* One fresh computation with its threads interleaved in every way, against *)
(* a Content Source that keeps one behaviour throughout.  `ret` is not      *)
(* used; the source in force is kept in `prev`.                             *)

\* the behaviour of the Content Source during this computation
PoolSource == prev.src

InitPool ==
    /\ InitSelector
    /\ catalog = CatalogFile(Catalog)
    /\ InitRest

\* the Content Source takes a behaviour before the computation starts
ChooseSource(d, src) ==
    /\ pool.phase = "idle"
    /\ prev' = Call(d, src, "none", "", None, FALSE, NoTrace, NoTrace)
    /\ UNCHANGED <<memory, messages, disk, entropy, ret, built, catalog, pool,
                   callers, msgret, apart>>

NextPool ==
    \/ \E d \in Dates : \E src \in SourcesFor(d) : ChooseSource(d, src)
    \/ \E d \in Dates : prev.date = d /\ Submit(d)
    \/ \E i \in 1..2 : Work(i, PoolSource)
    \/ Result1
    \/ Result2
    \/ PoolDone

SpecPool == InitPool /\ [][NextPool]_vars

-----------------------------------------------------------------------------
(* Two threads of one process in get_daily_pair for one date, interleaved   *)
(* line by line; each sees the Content Source in some behaviour.            *)

RaceModes == {"up", "down", "sparse"}

NextRace ==
    \/ \E i \in 1..2 : \E d \in Dates : \E mode \in RaceModes :
           CallLoad(i, d, Uniform(mode))
    \/ \E i \in 1..2 : CallCompute(i)
    \/ \E i \in 1..2 : CallRender(i)
    \/ \E i \in 1..2 : \E io \in IoOutcomes : CallOpen(i, io)
    \/ \E i \in 1..2 : CallWrite(i)
    \/ \E i \in 1..2 : CallStore(i)

SpecRace == Init /\ [][NextRace]_vars

-----------------------------------------------------------------------------
(* The selector serving both dates in one process, with get_cached_messages *)
(* as well as get_daily_pair, against a Content Source that is up or down   *)
(* and snapshot files of this and the older format.                         *)

\* files that may lie at the snapshot path of d: unparseable; of the format
\* without formatted_messages, with proper text or with a number for text
OlderFilesFrom(h) ==
    { Garbage,
      [json |-> Drop(h, "formatted_messages")],
      [json |-> Drop([h EXCEPT !.first.hebrew_text = Scalar("int")],
                     "formatted_messages")] }

OlderFiles(d) == OlderFilesFrom(HealthyData(d))

NextMessages ==
    \/ \E d \in Dates : \E mode \in {"up", "down"} : \E io \in IoOutcomes :
           GetDailyPair(d, Uniform(mode), io)
    \/ \E d \in Dates : GetCachedMessages(d)
    \/ \E d \in Dates : \E file \in OlderFiles(d) : ExternalWrite(d, file)
    \/ \E d \in Dates : RemoveFile(d)
    \/ Restart

SpecMessages == Init /\ [][NextMessages]_vars

-----------------------------------------------------------------------------
(* Any sequence of subscriber calls, from no state file or a valid one,     *)
(* which need not be sorted or free of repetitions.                         *)

ValidLists ==
    {<< >>, <<1>>, <<2, 1>>, <<3, 3>>, <<1, 2, 3>>} \cup {Sorted(ids) : ids \in SUBSET ChatIds}

InitSubscribers ==
    /\ InitSelector
    /\ catalog = CatalogFile(Catalog)
    /\ pool = PoolIdle
    /\ callers = NoCallers
    /\ msgret = NoMessagesCall
    /\ subsfile \in {NoFile} \cup {[list |-> l] : l \in ValidLists}
    /\ refset = LoadSubscribers(subsfile)
    /\ subret = NoSubscribersCall
    /\ cmdret = NoCommand
    /\ fetched = NoFetch
    /\ InitStateless
    /\ InitScripts

NextSubscribers ==
    \/ \E chat_id \in ChatIds : AddSubscriber(chat_id)
    \/ \E chat_id \in ChatIds : RemoveSubscriber(chat_id)
    \/ \E chat_id \in ChatIds : IsSubscribed(chat_id)
    \/ GetSubscriberCount

SpecSubscribers == InitSubscribers /\ [][NextSubscribers]_vars

-----------------------------------------------------------------------------
(* The two commands, served by the selector of a process that restarts and  *)
(* finds its own snapshots, snapshots of the older format or of two units   *)
(* of one category, or served by a stand-in for the selector.               *)

CommandFilesFrom(h) ==
    { [json |-> Drop(h, "formatted_messages")],
      [json |-> [h EXCEPT !.second = h.first]],
      [json |-> Drop([h EXCEPT !.first.hebrew_text = Scalar("int")],
                     "formatted_messages")] }

CommandFiles(d) == CommandFilesFrom(HealthyData(d))

\* what a stand-in's get_cached_messages answers
DoubleCached(d) ==
    { MessagesCall(d, "", None),
      MessagesCall(d, "Exception", None),
      MessagesCall(d, "", [msgs |-> << >>]),
      MessagesCall(d, "", [msgs |-> <<WelcomeMessage>>]),
      MessagesCall(d, "", [msgs |-> HealthyData(d).formatted_messages]) }

\* what a stand-in's get_daily_pair answers
DoubleAsked(d) ==
    { DoubleCall(d, "", None),
      DoubleCall(d, "Exception", None),
      DoubleCall(d, "", FreshPair(d, AllUp).pair) }

CommandNames == {"start", "today"}

NextCommands ==
    \/ \E d \in Dates : \E mode \in {"up", "down"} : \E io \in IoOutcomes :
           GetStartMessages(d, Uniform(mode), io)
    \/ \E d \in Dates : \E mode \in {"up", "down"} : \E io \in IoOutcomes :
           GetTodayMessages(d, Uniform(mode), io)
    \/ \E op \in CommandNames : \E d \in Dates :
           \E cached \in DoubleCached(d) : \E asked \in DoubleAsked(d) :
               RunCommandWithDouble(op, d, cached, asked)
    \/ \E d \in Dates : \E file \in CommandFiles(d) : ExternalWrite(d, file)
    \/ \E d \in Dates : RemoveFile(d)
    \/ Restart

SpecCommands == Init /\ [][NextCommands]_vars

-----------------------------------------------------------------------------
(* fetch_halacha called for any category and any locator, the Content       *)
(* Source failing, or replying with texts around the length that counts.    *)

\* markup and white space
Bold == <<"<", "b", ">">>

Unbold == <<"<", "/", "b", ">">>

Blank == <<" ", "\n", " ">>

\* texts as the Content Source may send them
RawTexts ==
    { << >>,
      Blank,
      Letters(MinTextLen - 1),
      Letters(MinTextLen),
      Bold \o Letters(MinTextLen - 1) \o Unbold,
      Bold \o Letters(MinTextLen) \o Unbold,
      Blank \o Letters(MinTextLen - 1) \o Blank,
      Letters(MinTextLen - 6) \o Blank \o Letters(4),
      Letters(MinTextLen - 5) \o Blank \o Letters(4),
      <<"<">> \o Letters(MinTextLen - 1),
      <<"<", ">">> \o Letters(MinTextLen - 3),
      <<"a", "<", "b", "<", "c", ">">> \o Letters(MinTextLen - 2),
      Bold \o Blank \o Unbold }

\* lists of texts as the Content Source may send them
RawLists ==
    { << >>,
      << << >>, << >> >>,
      << Letters(4), << >>, Letters(MinTextLen - 6) >>,
      << Letters(4), << >>, Letters(MinTextLen - 5) >>,
      << Bold \o Letters(4), Blank, Letters(4) \o Unbold >> }

Replies ==
    {Reply(e, BodyOfError) : e \in RequestExceptions}
        \cup {Reply("", BodyOfError)}
        \cup {Reply("", BodyOfText(t)) : t \in RawTexts}
        \cup {Reply("", BodyOfList(l)) : l \in RawLists}

\* locators and sub-locators, those no category has among them
Locators == (0 - 1)..(MaxSiman + 1)

NextFetch ==
    \E reply \in Replies : \E n \in NameSet : \E siman \in Locators : \E seif \in Locators :
        FetchHalachaCall(reply, GetVolume(n), siman, seif)

SpecFetch == Init /\ [][NextFetch]_vars

-----------------------------------------------------------------------------
(* chunk_text called with any short text of letters, blanks and full stops  *)
(* and any small max_chars.                                                 *)

\* texts have at most MaxTextChars characters
MaxTextChars == 6

\* max_chars ranges over 1..MaxChunk
MaxChunk == 3

ChunkChars == {"a", " ", "."}

ChunkTexts == UNION {[1..n -> ChunkChars] : n \in 0..MaxTextChars}

NextChunk ==
    \E text \in ChunkTexts : \E max_chars \in 1..MaxChunk : ChunkTextCall(text, max_chars)

SpecChunk == Init /\ [][NextChunk]_vars

-----------------------------------------------------------------------------
(* split_text called with any short text of letters and blanks, and         *)
(* format_daily_message with pairings whose texts are empty, fill a message *)
(* exactly, or run over one or two messages, with blanks where the cut      *)
(* falls.                                                                   *)

SplitTexts == UNION {[1..n -> {"a", " "}] : n \in 0..MaxTextChars}

\* a text of n characters, blank at the positions of blanks
TextOf(n, blanks) == [i \in 1..n |-> IF i \in blanks THEN " " ELSE "a"]

UnitOf(volume, text) == Halacha(volume, 1, 1, text, SefariaUrl(volume.ref_base, 1, 1))

\* the room the first unit's first message has for text
Room == Available(Base(UnitOf(Catalog[1], << >>), TRUE), Footer(UnitOf(Catalog[1], << >>)))

LongTexts ==
    { << >>,
      TextOf(Room, {}),
      TextOf(Room + 1, {}),
      TextOf(Room + 1, {1}),
      TextOf(Room + 1, {Room}),
      TextOf(Room + 1, {Room + 1}),
      TextOf(Room + Reserve, {Room - 1, Room, Room + 1, Room + 2}),
      TextOf(2 * Room, 1..3),
      TextOf(2 * Room + Reserve, {}),
      TextOf(2 * Room + Reserve, {2 * Room}) }

LongPairs ==
    { DailyPair(UnitOf(Catalog[1], t1), UnitOf(Catalog[2], t2), "2026-02-16").pair :
          t1 \in LongTexts, t2 \in LongTexts }

NextFormat ==
    \/ \E text \in SplitTexts : \E max_len \in 1..MaxChunk : SplitTextCall(text, max_len)
    \/ \E pair \in LongPairs : FormatDailyMessageCall(pair)

SpecFormat == Init /\ [][NextFormat]_vars

-----------------------------------------------------------------------------
(* send_voice_for_pair in every combination of failures.                    *)

\* what a unit's audio meets: cache, synthesis, cache write, sending
VoiceEnvs ==
    [cache : {"hit", "unreadable", "miss"}, tts : {"ok", "raise"},
     write : {"ok", "fail"}, send : {"ok", "raise"}]

Clients == {"given", "created", "raise"}

NextVoice ==
    \E client \in Clients : \E env1 \in VoiceEnvs : \E env2 \in VoiceEnvs :
        SendVoiceForPair(client, env1, env2)

SpecVoice == Init /\ [][NextVoice]_vars

-----------------------------------------------------------------------------
(* Two computations of one date against a Content Source that may answer   *)
(* the second as it likes: a call, then a new process on a machine whose   *)
(* caches are empty, then a call for the same date.                        *)

\* the second process is asked for the date the first was asked for
SameDate(d) == prev = NoCall \/ d = prev.date

NextAnswers ==
    \/ \E d \in Dates : Solo(d) /\ \E src \in SourcesFor(d) : \E io \in IoOutcomes :
           SameDate(d) /\ GetDailyPair(d, src, io)
    \/ FreshStart

SpecAnswers == Init /\ [][NextAnswers]_vars

-----------------------------------------------------------------------------
(* The selector in one process after another, with no snapshot but those    *)
(* the program wrote itself: get_daily_pair and get_cached_messages for    *)
(* both dates, a Content Source that is up or down, a file system that     *)
(* lets the snapshot be written or not.                                    *)

NextOwnFiles ==
    \/ \E d \in Dates : \E mode \in {"up", "down"} : \E io \in IoOutcomes :
           GetDailyPair(d, Uniform(mode), io)
    \/ \E d \in Dates : GetCachedMessages(d)
    \/ Restart

SpecOwnFiles == Init /\ [][NextOwnFiles]_vars

-----------------------------------------------------------------------------
(* Runs of poll_and_respond one after another, as the scheduled workflow    *)
(* starts them.  Telegram returns updates from the offset on (update_id >= *)
(* last_update_id + 1), none, one or two at a time.                         *)

\* the chat the commands come from
PollChats == {1}

Update(update_id, text, chat_id, sends) ==
    [update_id |-> update_id, text |-> text, chat_id |-> chat_id, sends |-> sends]

UpdatesWith(update_id) ==
    {Update(update_id, text, 1, "ok") : text \in {"none", "plain"}}
    \cup {Update(update_id, text, chat_id, sends) :
              text \in PollCommands, chat_id \in PollChats, sends \in {"ok", "fail"}}

\* the batches get_updates(offset) may return
Batches(offset) ==
    {<< >>}
    \cup {<<u>> : u \in UNION {UpdatesWith(i) : i \in offset..MaxUpdateId}}
    \cup {<<u, v>> : u \in UNION {UpdatesWith(i) : i \in offset..MaxUpdateId},
                     v \in UNION {UpdatesWith(i) : i \in offset..MaxUpdateId}}

DistinctIds(updates) ==
    \A i, j \in DOMAIN updates : i # j => updates[i].update_id # updates[j].update_id

PollEnv(config, webhook, errors, updates) ==
    [config |-> config, webhook |-> webhook, errors |-> errors, updates |-> updates]

\* what a run may meet when the state file holds `last`
PollEnvs(last) ==
    {PollEnv("bad", "ok", << >>, << >>)}
    \cup {PollEnv("ok", webhook, << >>, << >>) : webhook \in {"TimedOut", "TelegramError"}}
    \cup {PollEnv("ok", "ok", errors, << >>) :
              errors \in {<<"TelegramError">>, <<"TimedOut", "TelegramError">>,
                          <<"TimedOut", "NetworkError", "TimedOut">>}}
    \cup {PollEnv("ok", "ok", errors, updates) :
              errors \in {<< >>, <<"NetworkError", "TimedOut">>},
              updates \in {b \in Batches(last + 1) : DistinctIds(b)}}

NextPoll == \E env \in PollEnvs(LoadState(statefile)) : PollAndRespond(env)

SpecPoll == Init /\ [][NextPoll]_vars

-----------------------------------------------------------------------------
(* One send_daily_broadcast of a process: any subscribers file over         *)
(* CastChats, the channel being chat 1 or a user name, the Content Source  *)
(* up or down, the snapshot written or not, and every way for the sends to *)
(* end.                                                                     *)

CastChats == {1, 2, 3}

\* the orders in which a set may be iterated
Orders(ids) ==
    {s \in [1..Cardinality(ids) -> ids] :
        \A i, j \in 1..Cardinality(ids) : i # j => s[i] # s[j]}

\* how the channel sends may end: all sent, or the first failure at 1 or 2
ChannelOutcomes ==
    {<<"ok", "ok">>, <<"ok", "falsy">>, <<"ok", "raise">>,
     <<"falsy", "ok">>, <<"raise", "ok">>}

\* the sends to the channel's own chat are those of ChannelOutcomes
Failings == {f \in [CastChats -> 0..2] : f[1] = 0}

\* the set of subscribers is iterated upwards or downwards
Ranks == {r \in Orders(CastChats) : r[2] = 2}

BroadcastEnv(channel_id, channel, rank, failing, tts, unified) ==
    [channel_id |-> channel_id, channel |-> channel, rank |-> rank,
     failing |-> failing, tts |-> tts, unified |-> unified]

\* what a broadcast may meet: with a user name for the channel nothing is
\* sent, whatever the sends would meet
BroadcastEnvs ==
    {BroadcastEnv([name |-> "@channel"], <<"ok", "ok">>, <<1, 2, 3>>,
                  [c \in CastChats |-> 0], tts, "off") : tts \in BOOLEAN}
    \cup {BroadcastEnv([int |-> 1], channel, rank, failing, extras[1], extras[2]) :
              channel \in ChannelOutcomes, rank \in Ranks, failing \in Failings,
              extras \in {<<FALSE, "off">>, <<TRUE, "fail">>}}

\* the Content Source and the file system of a broadcast
CastWorlds == {<<"up", "ok">>, <<"up", "fail">>, <<"down", "ok">>}

InitCast ==
    /\ InitSelector
    /\ catalog = CatalogFile(Catalog)
    /\ pool = PoolIdle
    /\ callers = NoCallers
    /\ msgret = NoMessagesCall
    /\ subsfile \in {NoFile} \cup {[list |-> Sorted(ids)] : ids \in SUBSET CastChats}
    /\ refset = LoadSubscribers(subsfile)
    /\ subret = NoSubscribersCall
    /\ cmdret = NoCommand
    /\ fetched = NoFetch
    /\ InitStateless
    /\ InitScripts

NextCast ==
    \E d \in Dates : \E world \in CastWorlds : \E env \in BroadcastEnvs :
        SendDailyBroadcast(d, Uniform(world[1]), world[2], env)

SpecCast == InitCast /\ [][NextCast]_vars

-----------------------------------------------------------------------------
(* Calls of send_voice_for_pair over one audio cache, for pairings whose   *)
(* units have any of two texts, each unit failing at one step at most.     *)

AudioTexts == {"a", "b"}

AudioFails == {"", "tts", "read", "write", "send"}

NextAudio ==
    \E d \in Dates : \E texts \in AudioTexts \X AudioTexts :
        \E fails \in AudioFails \X AudioFails : SendVoiceForPairOn(d, texts, fails)

SpecAudio == Init /\ [][NextAudio]_vars

-----------------------------------------------------------------------------
(* publish_text under every setting and every course of its attempts.      *)

PublishOutcomes == {"ok", "TelegramError", "Exception"}

PublishEnvs ==
    [enabled : BOOLEAN, channel : BOOLEAN, token : BOOLEAN,
     init : {"ok", "TelegramError"}, outcomes : [1..MAX_RETRIES -> PublishOutcomes]]

NextPublish == \E env \in PublishEnvs : PublishText(env)

SpecPublish == Init /\ [][NextPublish]_vars

-----------------------------------------------------------------------------
(* Deployments whose catalog is damaged: the file is missing, or lacks one  *)
(* of the four volumes.                                                     *)

\* the catalog without the volume of that name
VolumesWithout(name) == SelectSeq(Catalog, LAMBDA v : v.volume # name)

CatalogFiles ==
    {CatalogFile(Catalog), CatalogMissing}
        \cup {CatalogFile(VolumesWithout(n)) : n \in NameSet}

InitCatalog ==
    /\ InitSelector
    /\ catalog \in CatalogFiles
    /\ InitRest

NextCatalog ==
    \/ \E d \in Dates : Solo(d) /\ \E mode \in Modes : \E io \in IoOutcomes :
           GetDailyPair(d, Uniform(mode), io)
    \/ \E d \in Dates : RemoveFile(d)
    \/ Restart

SpecCatalog == InitCatalog /\ [][NextCatalog]_vars

-----------------------------------------------------------------------------
(* Properties *)

\* the call that has just returned handed its caller a pairing
Returned == ret.path # "none" /\ ret.outcome = "return"

FreshReturned == ret.path = "fresh" /\ ret.outcome = "return"

\* the categories of date d, in shuffle order
CategoriesOf(d) == SelectTwoVolumes(GetDailyRng(d))

\* the requests the call sent to the Content Source
RequestsSent(call) == Len(call.first.reqs) + Len(call.second.reqs)

(* C1: constructing a DailyPair from two units whose categories have the    *)
(* same name fails at once with ValueError, whatever the locators,         *)
(* sub-locators, texts, URLs and other category attributes; with different *)
(* names it succeeds and yields the pair of exactly these units.           *)
C1_ConstructionValidates ==
    built.done =>
        /\ built.raised = "ValueError"
               <=> built.first.volume.volume = built.second.volume.volume
        /\ built.raised \in {"", "ValueError"}
        /\ built.raised = "" =>
               /\ built.pair.first = built.first
               /\ built.pair.second = built.second
        /\ built.raised # "" => IsNone(built.pair)

\* a construction was refused although the two units differ in locator,
\* text and reference prefix
C1_Witness ==
    /\ built.done
    /\ built.raised = "ValueError"
    /\ built.first.siman # built.second.siman
    /\ built.first.hebrew_text # built.second.hebrew_text
    /\ built.first.volume.ref_base # built.second.volume.ref_base

(* C2: whatever the date and however the Content Source behaves, a pairing  *)
(* that get_daily_pair returns has units of two different categories, and  *)
(* a fresh computation never ends in the constructor's ValueError.         *)
C2_CategoriesDistinct ==
    /\ Returned => ret.value.first.volume.volume # ret.value.second.volume.volume
    /\ ret.path = "fresh" => ret.error # "ValueError"

\* a fresh computation in which one slot's fetches all failed and the other's
\* did not
C2_Witness ==
    /\ FreshReturned
    /\ ret.first.fallback
    /\ ~ret.second.fallback

\* the categories and locators of a pairing
Selection(pair) ==
    << pair.first.volume.volume, pair.first.siman, pair.first.seif,
       pair.second.volume.volume, pair.second.siman, pair.second.seif >>

\* prev and ret are fresh computations of one date, in two processes that
\* both started with empty caches, against the same answers
TwoRuns ==
    /\ prev.path = "fresh" /\ prev.outcome = "return"
    /\ FreshReturned
    /\ prev.date = ret.date
    /\ prev.src = ret.src

IsFallbackUnit(h) == h.hebrew_text = FallbackText

\* the pairing a snapshot file holds
SnapshotPair(file) ==
    DailyPair(UnitFromJson(file.json.first), UnitFromJson(file.json.second),
              file.json.date_seed).pair

(* C4: after a fresh computation a durable snapshot is written if and only  *)
(* if neither unit is a fallback placeholder.                               *)
C4_SavedIffNoFallback ==
    FreshReturned =>
        (ret.saved <=> ~IsFallbackUnit(ret.value.first) /\ ~IsFallbackUnit(ret.value.second))

\* the step is a get_daily_pair(d) call; ret' records it
Called(d) == ret'.path # "none" /\ ret'.date = d

\* the last call computed d afresh and returned a fallback unit
FellBack(d) ==
    /\ FreshReturned
    /\ ret.date = d
    /\ ret.first.fallback \/ ret.second.fallback

(* C5: when get_daily_pair(d) has returned fallback units because the       *)
(* Content Source failed, the next get_daily_pair(d), made once the Content *)
(* Source succeeds, fetches again, returns non-fallback units, and leaves a *)
(* durable snapshot of d with non-fallback content.                         *)
C5_RetryFetchesAgain ==
    [][\A d \in Dates :
          FellBack(d) /\ GetDailyPair(d, AllUp, "ok") =>
              /\ ret'.path = "fresh"
              /\ ret'.outcome = "return"
              /\ ~IsFallbackUnit(ret'.value.first)
              /\ ~IsFallbackUnit(ret'.value.second)
              /\ d \in DOMAIN disk'
              /\ disk'[d] = [json |-> SnapshotOf(ret'.value, d)]]_vars

\* the snapshot file of d can be loaded as a pairing with its messages
Loadable(dsk, d) ==
    /\ d \in DOMAIN dsk
    /\ LoadError(dsk[d]) = ""
    /\ \/ "formatted_messages" \in DOMAIN dsk[d].json
       \/ FormatDailyMessage(SnapshotPair(dsk[d]), d).raised = ""

(* C6: get_daily_pair(d) answers from the memory tier when it has an entry  *)
(* for d, whatever the snapshot file holds; otherwise from the durable      *)
(* snapshot when it is loadable; it computes afresh, and sends requests to  *)
(* the Content Source, only when the memory tier has no entry for d and the *)
(* durable tier no loadable snapshot.  A hit in either tier sends nothing.  *)
C6_TierOrder ==
    [][\A d \in Dates :
          Called(d) =>
              /\ d \in DOMAIN memory =>
                     /\ ret'.path = "memory"
                     /\ ret'.outcome = "return"
                     /\ ret'.value = memory[d]
              /\ (d \notin DOMAIN memory /\ Loadable(disk, d)) =>
                     /\ ret'.path = "durable"
                     /\ ret'.outcome = "return"
                     /\ ret'.value = SnapshotPair(disk[d])
              /\ ret'.path = "fresh" => d \notin DOMAIN memory /\ ~Loadable(disk, d)
              /\ ret'.path \in {"memory", "durable"} => RequestsSent(ret') = 0
              /\ RequestsSent(ret') > 0 => ret'.path = "fresh"]_vars

\* the memory tier answered although the file holds a loadable snapshot of
\* another pairing
C6_Witness ==
    /\ Returned
    /\ ret.path = "memory"
    /\ RequestsSent(ret) = 0
    /\ Loadable(disk, ret.date)
    /\ SnapshotPair(disk[ret.date]) # ret.value

(* C7: a get_daily_pair(d) that finds no memory entry but a loadable        *)
(* snapshot returns a pairing equal in content to the snapshot and stores   *)
(* it in the memory tier; a get_daily_pair(d) that finds a memory entry     *)
(* returns that entry whatever the file now holds; and changing or          *)
(* removing the file leaves the memory tier as it is.                       *)
C7_Promotion ==
    [][/\ \A d \in Dates :
            Called(d) =>
                /\ (d \notin DOMAIN memory /\ ret'.path = "durable"
                       /\ ret'.outcome = "return") =>
                       /\ ret'.value.first = UnitFromJson(disk[d].json.first)
                       /\ ret'.value.second = UnitFromJson(disk[d].json.second)
                       /\ ret'.value.date_seed = disk[d].json.date_seed
                       /\ d \in DOMAIN memory'
                       /\ memory'[d] = ret'.value
                /\ d \in DOMAIN memory =>
                       /\ ret'.path = "memory"
                       /\ ret'.value = memory[d]
                       /\ memory' = memory
                       /\ disk' = disk
       /\ (ret'.path = "none" /\ disk' # disk) => memory' = memory]_vars

\* a pairing that only a snapshot can have brought in is returned from
\* memory after the file has been removed
C7_Witness ==
    /\ Returned
    /\ ret.path = "memory"
    /\ ret.date \notin DOMAIN disk
    /\ ret.value.first.hebrew_text = Scalar("int")

(* C8: a snapshot that cannot be loaded as a pairing is a miss: no error    *)
(* of loading it reaches the caller of get_daily_pair.                      *)
C8_UnloadableIsMiss == ret.path = "durable" => ret.outcome = "return"

(* C9: get_daily_pair never raises because of Content Source failures: a    *)
(* fresh computation returns a pairing whatever the Content Source did; the *)
(* one error that escapes it is the file system's, raised while writing a   *)
(* snapshot, which happens only when both fetch sequences succeeded.        *)
C9_NeverRaisesForSource ==
    ret.path = "fresh" =>
        \/ /\ ret.outcome = "return"
           /\ ~IsNone(ret.value)
           /\ ~IsNone(ret.value.first) /\ ~IsNone(ret.value.second)
        \/ /\ ret.error = "OSError"
           /\ ~ret.first.fallback /\ ~ret.second.fallback

\* every attempt of both categories failed and the call returned
C9_Witness ==
    /\ FreshReturned
    /\ ret.first.fallback /\ ret.second.fallback
    /\ ret.first.attempts = MaxAttempts /\ ret.second.attempts = MaxAttempts
    /\ RequestsSent(ret) > 0

\* unit is what the slot of category volume holds after fetch sequence trace
SlotAsSpecified(unit, volume, trace) ==
    IF trace.fallback
    THEN /\ trace.attempts = MaxAttempts
         /\ DOMAIN unit = DOMAIN Halacha(volume, 1, 1, NoText, SefariaUrl("", 1, 1))
         /\ unit.volume = volume
         /\ unit.siman \in 1..volume.max_siman
         /\ unit.seif = 1
         /\ unit.hebrew_text = FallbackText
         /\ ContainsMarker(unit.hebrew_text)
         /\ unit.sefaria_url = FallbackUrl(volume.ref_base, unit.siman)
    ELSE unit = trace.unit

(* C10: when all 10 attempts for a category fail, that category's slot      *)
(* holds a fallback unit: the slot's category, a locator in 1..max_siman,   *)
(* sub-locator 1, the placeholder text, the link built from the category's  *)
(* reference prefix and that locator, and the fields of a real unit; a slot *)
(* whose fetch sequence produced a unit holds that unit.                    *)
C10_FallbackUnit ==
    FreshReturned =>
        /\ SlotAsSpecified(ret.value.first, CategoriesOf(ret.date).vol1, ret.first)
        /\ SlotAsSpecified(ret.value.second, CategoriesOf(ret.date).vol2, ret.second)

\* the first slot fell back after 10 attempts and the second did not
C10_Witness ==
    /\ FreshReturned
    /\ ret.first.fallback /\ ret.first.attempts = MaxAttempts
    /\ ~ret.second.fallback
    /\ ret.value.second = ret.second.unit

\* the two names the shuffle puts first for date d
DayNames(d) ==
    {Shuffle(VOLUME_NAMES, GetDailyRng(d)).names[i] : i \in 1..2}

\* the catalog holds no volume of one of the day's two names
NameAbsent(d) ==
    \E n \in DayNames(d) :
        \A i \in DOMAIN catalog.volumes : catalog.volumes[i].volume # n

CatalogFails(d) == ~catalog.exists \/ NameAbsent(d)

(* C11, as stated: when the catalog cannot be loaded, or lacks one of the   *)
(* day's categories, a get_daily_pair that has to compute returns null to   *)
(* its caller rather than raising; and it returns null in no other case.    *)
C11_NullOnCatalogFailure ==
    /\ (ret.path = "fresh" /\ CatalogFails(ret.date)) =>
           (ret.outcome = "return" /\ IsNone(ret.value))
    /\ (Returned /\ IsNone(ret.value)) => CatalogFails(ret.date)

(* C11, amended: a get_daily_pair that has to compute afresh raises         *)
(* FileNotFoundError when the catalog file is missing and RuntimeError when *)
(* the catalog lacks one of the day's two categories, and raises neither    *)
(* otherwise; get_daily_pair never returns null.                            *)
C11_CatalogFailureRaises ==
    /\ Returned => ~IsNone(ret.value)
    /\ ret.path = "fresh" =>
           /\ ~catalog.exists => ret.error = "FileNotFoundError"
           /\ (catalog.exists /\ NameAbsent(ret.date)) => ret.error = "RuntimeError"
           /\ ret.error \in {"FileNotFoundError", "RuntimeError"}
                  => CatalogFails(ret.date)

\* the catalog file is there, lacks one of the day's categories, and the call
\* raised RuntimeError
C11_Witness ==
    /\ ret.path = "fresh"
    /\ catalog.exists
    /\ NameAbsent(ret.date)
    /\ ret.outcome = "raise"
    /\ ret.error = "RuntimeError"

\* the computation in `pool` has built its pair
PoolBuilt == pool.phase = "done"

(* C12: the two fetch sequences run concurrently, and in every interleaving *)
(* and completion order the pairing is assembled only after both have       *)
(* finished (future1.result() returns only after thread 1 has, and so on),  *)
(* with the unit of the first shuffled category in slot `first` and that of *)
(* the second in slot `second`: the pair is the one the two sequences give  *)
(* when run one after the other.                                            *)
C12_SlotsByShuffle ==
    /\ pool.phase \in {"got1", "done"} => pool.w[1].done
    /\ PoolBuilt =>
           /\ pool.w[1].done /\ pool.w[2].done
           /\ pool.result.raised = ""
           /\ pool.result.pair.first.volume = CategoriesOf(pool.date).vol1
           /\ pool.result.pair.second.volume = CategoriesOf(pool.date).vol2
           /\ ~IsNone(pool.w[1].halacha) => pool.result.pair.first = pool.w[1].halacha
           /\ ~IsNone(pool.w[2].halacha) => pool.result.pair.second = pool.w[2].halacha
           /\ pool.result = FreshPair(pool.date, PoolSource)

\* the second category's fetch finished first, after the first category's
\* had started, and both produced a unit
C12_Witness ==
    /\ PoolBuilt
    /\ pool.order = <<2, 1>>
    /\ pool.w[1].attempt > 1
    /\ ~IsNone(pool.w[1].halacha)
    /\ ~IsNone(pool.w[2].halacha)

\* both threads entered get_daily_pair before either had cached anything
BothMissed == \A i \in 1..2 : callers.who[i].missed

\* thread i is back from get_daily_pair
Back(i) == callers.who[i].pc = "done"

(* C13: when two get_daily_pair calls for one date both miss every tier and *)
(* run concurrently, in any interleaving, neither raises (short of the file *)
(* system refusing the snapshot), each returns a pairing of the date's two  *)
(* categories in shuffle order, and once both are back the memory tier      *)
(* holds for the date the pairing of the caller that assigned it last.      *)
C13_BenignRace ==
    BothMissed =>
        /\ \A i \in 1..2 :
               Back(i) =>
                   /\ callers.who[i].raised \in {"", "OSError"}
                   /\ callers.who[i].raised = "" =>
                          /\ callers.who[i].value.first.volume
                                 = CategoriesOf(callers.who[i].date).vol1
                          /\ callers.who[i].value.second.volume
                                 = CategoriesOf(callers.who[i].date).vol2
        /\ (Back(1) /\ Back(2) /\ callers.order # << >>) =>
               /\ callers.who[1].date \in DOMAIN memory
               /\ memory[callers.who[1].date]
                      = callers.who[callers.order[Len(callers.order)]].value

\* both missed, computed different pairings, and thread 1 assigned the memory
\* tier after thread 2
C13_Witness ==
    /\ BothMissed
    /\ Back(1) /\ Back(2)
    /\ callers.order = <<2, 1>>
    /\ callers.who[1].value # callers.who[2].value
    /\ memory[callers.who[1].date] = callers.who[1].value

\* the step is a get_cached_messages(d) call; msgret' records it
AskedMessages(d) == msgret'.outcome # "none" /\ msgret'.date = d

\* dicts f and g agree on key e: both lack it or both hold the same value
SameAt(f, g, e) ==
    /\ e \in DOMAIN f <=> e \in DOMAIN g
    /\ e \in DOMAIN f => f[e] = g[e]

(* C14: a get_daily_pair(d) or get_cached_messages(d) leaves the memory     *)
(* pairing, the rendered messages and the snapshot file of every date other *)
(* than d as they were, also when calls for different dates alternate.      *)
C14_OtherDatesUntouched ==
    [][\A d \in Dates :
          (Called(d) \/ AskedMessages(d)) =>
              \A e \in Dates \ {d} :
                  /\ SameAt(memory, memory', e)
                  /\ SameAt(messages, messages', e)
                  /\ SameAt(disk, disk', e)]_vars

\* a call for one date has just loaded its snapshot into both memory caches
\* while the other date has a pairing, messages and a snapshot
C14_Witness ==
    /\ Returned
    /\ ret.path = "durable"
    /\ \E e \in Dates \ {ret.date} :
           /\ e \in DOMAIN memory
           /\ e \in DOMAIN messages
           /\ e \in DOMAIN disk

\* what a new session (both memory caches empty) loads from the snapshot of d
LoadedAnew(d) == LoadCachedPair(d, << >>, << >>, disk)

(* C15: the snapshot a fresh computation has just saved, loaded in a new    *)
(* session, yields a pairing equal to the saved one in every field (seed    *)
(* string; per unit the volume's name, display name, reference prefix and   *)
(* max_siman, the siman, the seif, the text, the URL) and the same ordered  *)
(* rendered messages as the saving session cached.                          *)
C15_SaveLoadRoundTrip ==
    (FreshReturned /\ ret.saved) =>
        /\ LoadedAnew(ret.date).raised = ""
        /\ LoadedAnew(ret.date).tier = "durable"
        /\ LoadedAnew(ret.date).value = ret.value
        /\ LoadedAnew(ret.date).memory = [x \in {ret.date} |-> ret.value]
        /\ ret.date \in DOMAIN LoadedAnew(ret.date).messages
        /\ LoadedAnew(ret.date).messages[ret.date] = messages[ret.date]
        /\ messages[ret.date]
               = <<WelcomeMessage>> \o FormatDailyMessage(ret.value, ret.date).msgs

\* a saved pairing whose units have a siman and a seif that differ, fetched
\* after a failed attempt
C15_Witness ==
    /\ FreshReturned
    /\ ret.saved
    /\ ret.date \in DOMAIN disk
    /\ ret.value.first.siman # ret.value.first.seif
    /\ ret.second.attempts > 1
    /\ Len(messages[ret.date]) = 3

\* the snapshot of d was written in the format without formatted_messages
\* and loads as a pairing that renders
OlderFormat(dsk, d) ==
    /\ Loadable(dsk, d)
    /\ "formatted_messages" \notin DOMAIN dsk[d].json

\* the messages of the pairing in snapshot file
Rendering(file, d) ==
    <<WelcomeMessage>> \o FormatDailyMessage(SnapshotPair(file), d).msgs

(* C16: when the snapshot a call loads has no pre-rendered messages, the    *)
(* messages are rendered from the loaded pairing and put in the message     *)
(* cache; get_daily_pair answering from the memory or the durable tier, and *)
(* get_cached_messages, leave every snapshot file as it is: a call changes  *)
(* a file only when it computes afresh.                                     *)
C16_ReadPathsDoNotWrite ==
    [][\A d \in Dates :
          /\ Called(d) =>
                 /\ ret'.path \in {"memory", "durable"} => disk' = disk
                 /\ disk' # disk => ret'.path = "fresh"
                 /\ (d \notin DOMAIN memory /\ OlderFormat(disk, d)) =>
                        /\ ret'.path = "durable"
                        /\ d \in DOMAIN messages'
                        /\ messages'[d] = Rendering(disk[d], d)
          /\ AskedMessages(d) =>
                 /\ disk' = disk
                 /\ (d \notin DOMAIN messages /\ d \notin DOMAIN memory
                        /\ OlderFormat(disk, d)) =>
                        /\ msgret'.outcome = "return"
                        /\ msgret'.value = [msgs |-> Rendering(disk[d], d)]
                        /\ d \in DOMAIN messages'
                        /\ messages'[d] = Rendering(disk[d], d)]_vars

\* get_cached_messages has just rendered the messages of a snapshot of the
\* older format, which is still as it was
C16_Witness ==
    /\ msgret.outcome = "return"
    /\ OlderFormat(disk, msgret.date)
    /\ msgret.value = [msgs |-> Rendering(disk[msgret.date], msgret.date)]
    /\ messages[msgret.date] = msgret.value.msgs

(* C17: get_cached_messages(d) returns null only when no tier holds a cache *)
(* entry for d: when the memory tier holds a pairing for d, or the snapshot *)
(* of d is loadable, it returns rendered messages.                          *)
C17_NullOnlyWithoutEntry ==
    [][\A d \in Dates :
          (AskedMessages(d) /\ (d \in DOMAIN memory \/ Loadable(disk, d))) =>
              /\ msgret'.outcome = "return"
              /\ ~IsNone(msgret'.value)]_vars

\* the step is a call of subscribers function op with argument chat_id
SubscribersStep(op, chat_id) == subret'.op = op /\ subret'.chat_id = chat_id

(* C18: after any sequence of add_subscriber and remove_subscriber calls    *)
(* from an empty or valid state file, the persisted set equals the          *)
(* reference set (ids added and not later removed); is_subscribed and       *)
(* get_subscriber_count answer by it; and add and remove return True        *)
(* exactly when they changed the set, a repeated call returning False and   *)
(* leaving the file as it is.                                               *)
C18_SubscribersRefineSet ==
    [][/\ LoadSubscribers(subsfile') = refset'
       /\ \A chat_id \in ChatIds :
              /\ SubscribersStep("add", chat_id) =>
                     /\ subret'.value.bool = (chat_id \notin refset)
                     /\ ~subret'.value.bool => subsfile' = subsfile
              /\ SubscribersStep("remove", chat_id) =>
                     /\ subret'.value.bool = (chat_id \in refset)
                     /\ ~subret'.value.bool => subsfile' = subsfile
              /\ SubscribersStep("is_subscribed", chat_id) =>
                     subret'.value.bool = (chat_id \in refset)
       /\ SubscribersStep("count", 0) => subret'.value.int = Cardinality(refset)]_vars

\* an id was removed from a file that held several, and is gone
C18_Witness ==
    /\ subret.op = "remove"
    /\ subret.value.bool
    /\ subret.chat_id \notin refset
    /\ Cardinality(refset) = 2
    /\ subsfile = [list |-> Sorted(refset)]

\* the step is a run of command op for date d
CommandStep(op, d) ==
    /\ cmdret'.op = op
    /\ cmdret'.date = d
    /\ msgret'.date = d

\* in the step the selector gave no pairing: a call of it raised, or its
\* get_daily_pair returned None
SelectorFailed ==
    \/ msgret'.outcome = "raise"
    \/ ret' # NoCall /\ (ret'.outcome = "raise" \/ IsNone(ret'.value))

\* in the step get_cached_messages returned rendered messages: the welcome
\* followed by the day's content
RenderedCached ==
    /\ msgret'.outcome = "return"
    /\ ~IsNone(msgret'.value)
    /\ Len(msgret'.value.msgs) > 1
    /\ Head(msgret'.value.msgs) = WelcomeMessage

(* C19: get_start_messages and get_today_messages never raise.  When the    *)
(* selector yields no pairing or raises, get_start_messages returns the     *)
(* welcome message followed by the error message and get_today_messages     *)
(* only the error message; when rendered messages are cached,               *)
(* get_start_messages returns them unchanged and get_today_messages returns *)
(* them without the leading welcome.                                        *)
C19_CommandsNeverRaise ==
    [][\A d \in Dates :
          /\ CommandStep("start", d) =>
                 /\ cmdret'.raised = ""
                 /\ SelectorFailed => cmdret'.msgs = <<WelcomeMessage, ErrorMessage>>
                 /\ RenderedCached => cmdret'.msgs = msgret'.value.msgs
          /\ CommandStep("today", d) =>
                 /\ cmdret'.raised = ""
                 /\ SelectorFailed => cmdret'.msgs = <<ErrorMessage>>
                 /\ RenderedCached => cmdret'.msgs = Tail(msgret'.value.msgs)]_vars

\* get_today_messages has answered with the error message alone after
\* get_daily_pair of the process's own selector raised
C19_Witness ==
    /\ cmdret.op = "today"
    /\ cmdret.msgs = <<ErrorMessage>>
    /\ ret.path = "fresh"
    /\ ret.outcome = "raise"

\* text holds a tag: "<", one character or more that is not ">", and ">"
HoldsTag(text) ==
    \E i, j \in DOMAIN text :
        /\ i + 1 < j
        /\ text[i] = "<"
        /\ text[j] = ">"
        /\ \A k \in (i + 1)..(j - 1) : text[k] # ">"

\* text is clean: no tag, no white space but single blanks between words
IsClean(text) ==
    /\ ~HoldsTag(text)
    /\ \A i \in DOMAIN text :
           IsSpace(text[i]) =>
               /\ text[i] = " "
               /\ i # 1 /\ i # Len(text)
               /\ ~IsSpace(text[i + 1])

\* the request of the recorded call failed in transport or by its status
RequestFailed == fetched.reply.error # ""

(* C20: fetch_halacha never raises, whatever the locator.  It returns None  *)
(* when the transport fails, when the HTTP status is an error, and when the *)
(* cleaned text is empty or shorter than 10 characters; it returns a unit   *)
(* only for a cleaned text of 10 characters or more, and the unit carries   *)
(* that text and the requested category, locator and sub-locator.           *)
C20_FetchReturnsNoneOrUnit ==
    fetched.outcome # "none" =>
        /\ fetched.outcome = "return"
        /\ IsNone(fetched.value) <=>
               \/ RequestFailed
               \/ Len(CleanText(HebrewOf(fetched.reply.data))) < MinTextLen
        /\ ~IsNone(fetched.value) =>
               /\ fetched.value.volume = fetched.volume
               /\ fetched.value.siman = fetched.siman
               /\ fetched.value.seif = fetched.seif
               /\ Len(fetched.value.hebrew_text) >= MinTextLen
               /\ IsClean(fetched.value.hebrew_text)

\* None was returned for a text of 10 characters or more as sent, fewer
\* once cleaned, asked for under a locator the category does not have
C20_Witness ==
    /\ fetched.outcome = "return"
    /\ IsNone(fetched.value)
    /\ ~RequestFailed
    /\ Len(HebrewOf(fetched.reply.data)) >= MinTextLen
    /\ fetched.siman > MaxSiman

(* C21: for every text and every max_chars of 1 or more, every chunk that  *)
(* chunk_text returns has at most max_chars characters.                     *)
C21_ChunksWithinMax ==
    chunked.called =>
        \A i \in DOMAIN chunked.chunks : Len(chunked.chunks[i]) <= chunked.max_chars

\* the limit the messaging service sets on a message
TelegramLimit == 4096

(* C22: format_daily_message terminates whatever the length of the unit     *)
(* texts, and every message it returns has at most 4096 characters; every   *)
(* chunk split_text returns has at most max_len characters.                 *)
C22_MessagesWithinLimit ==
    laidout.called =>
        /\ laidout.done
        /\ \A i \in DOMAIN laidout.lens : laidout.lens[i] <= TelegramLimit
        /\ \A i \in DOMAIN laidout.chunks : Len(laidout.chunks[i]) <= laidout.max_len

\* a pairing was laid out in four messages or more, one of them as long as
\* the reserve allows
C22_Witness ==
    /\ laidout.called
    /\ laidout.op = "format_daily_message"
    /\ Len(laidout.lens) >= 4
    /\ \E i \in DOMAIN laidout.lens : laidout.lens[i] >= MAX_MESSAGE_LENGTH - Reserve

\* something failed in the recorded call: the creation of the client, the
\* reading or writing of a unit's audio, its synthesis, or its sending
VoiceFailure ==
    \/ voiced.client = "raise"
    \/ \E env \in {voiced.env1, voiced.env2} :
           \/ env.cache = "unreadable"
           \/ env.cache = "miss" /\ (env.tts = "raise" \/ env.write = "fail")
           \/ env.send = "raise"

(* C23: send_voice_for_pair never raises: whatever fails in creating the    *)
(* client, in synthesizing audio or in sending a voice message, the call    *)
(* returns normally, and what was raised in it has been logged.             *)
C23_VoiceNeverRaises ==
    voiced.called =>
        /\ voiced.raised = ""
        /\ voiced.failed # "" => voiced.logged
        /\ ~VoiceFailure => voiced.sent = <<1, 2>>

\* the first unit's synthesis failed and it was skipped, and the sending of
\* the second raised
C23_Witness ==
    /\ voiced.called
    /\ voiced.skipped = <<1>>
    /\ voiced.failed = "TelegramError"
    /\ voiced.raised = ""

\* the requests for a unit among reqs, all but the last request
EarlierFetches(reqs) == {i \in 1..(Len(reqs) - 1) : reqs[i].seif # 0}

\* trace is what a run of at most MaxAttempts attempts for volume leaves:
\* one locator and at most three requests an attempt, no request after the
\* first that yields a valid unit, and None only after the last attempt
BoundedRetry(src, volume, trace) ==
    /\ trace.attempts \in 1..MaxAttempts
    /\ Len(trace.simanim) = trace.attempts
    /\ Len(trace.reqs) <= 3 * trace.attempts
    /\ \A i \in EarlierFetches(trace.reqs) :
           IsNone(FetchHalacha(src, volume, trace.reqs[i].siman, trace.reqs[i].seif))
    /\ IF trace.fallback
       THEN trace.attempts = MaxAttempts
       ELSE /\ trace.unit.siman = trace.simanim[trace.attempts]
            /\ trace.reqs[Len(trace.reqs)]
                   = Request(volume.ref_base, trace.unit.siman, trace.unit.seif)
            /\ trace.unit
                   = FetchHalacha(src, volume, trace.unit.siman, trace.unit.seif)

(* C24: get_random_halacha_from_volume makes at most 10 attempts, each      *)
(* drawing one locator and sending at most 3 requests; it returns at the    *)
(* first attempt that yields a valid unit and returns None after the 10th   *)
(* failed attempt, so a get_daily_pair whose requests all return ends.      *)
C24_BoundedRetry ==
    ret.path = "fresh" =>
        /\ BoundedRetry(ret.src, CategoriesOf(ret.date).vol1, ret.first)
        /\ BoundedRetry(ret.src, CategoriesOf(ret.date).vol2, ret.second)

\* one slot found its unit after failed attempts of three requests each, the
\* other gave up after the tenth attempt
C24_Witness ==
    /\ FreshReturned
    /\ \E t \in {ret.first, ret.second} :
           ~t.fallback /\ t.attempts > 1 /\ Len(t.reqs) = 3 * (t.attempts - 1) + 2
    /\ \E t \in {ret.first, ret.second} : t.fallback /\ t.attempts = MaxAttempts

-----------------------------------------------------------------------------
\* the sub-locator of request req is 1 or within the count reported for its siman
SeifWithin(src, volume, req) ==
    \/ req.seif = 1
    \/ /\ HasSeifim(GetSeifCount(src, volume, req.siman))
       /\ req.seif \in 1..GetSeifCount(src, volume, req.siman).n

\* the requests that name a seif (the others ask for a whole siman)
SeifRequests(reqs) == {i \in 1..Len(reqs) : reqs[i].seif # 0}

\* every locator drawn or requested for volume, and the locator of the unit
\* placed in its slot, is within 1..max_siman; every seif requested is within
\* what the source reported
LocatorsWithin(src, volume, trace, unit) ==
    /\ \A i \in 1..Len(trace.reqs) : trace.reqs[i].siman \in 1..volume.max_siman
    /\ \A k \in 1..Len(trace.simanim) : trace.simanim[k] \in 1..volume.max_siman
    /\ \A i \in SeifRequests(trace.reqs) : SeifWithin(src, volume, trace.reqs[i])
    /\ unit.siman \in 1..volume.max_siman

(* C25: every siman requested from the Content Source and the siman of     *)
(* every unit of a freshly computed pairing, fetched or fallback, lies     *)
(* within 1..max_siman of its category, and every seif requested is 1 or   *)
(* within 1..the seif count the source reported for that siman.            *)
C25_LocatorsWithinRange ==
    FreshReturned =>
        /\ LocatorsWithin(ret.src, CategoriesOf(ret.date).vol1, ret.first,
                          ret.value.first)
        /\ LocatorsWithin(ret.src, CategoriesOf(ret.date).vol2, ret.second,
                          ret.value.second)

\* a fresh pairing with a fallback unit in one slot and, in the other, a
\* fetched unit whose seif was drawn above 1
C25_Witness ==
    /\ FreshReturned
    /\ IsFallbackUnit(ret.value.first) \/ IsFallbackUnit(ret.value.second)
    /\ \E h \in {ret.value.first, ret.value.second} :
           ~IsFallbackUnit(h) /\ h.seif > 1

-----------------------------------------------------------------------------
\* prev and ret are fresh computations of one date, in two processes that
\* both started with empty caches, whatever the source answered to each
TwoComputations ==
    /\ prev.path = "fresh" /\ prev.outcome = "return"
    /\ FreshReturned
    /\ prev.date = ret.date

\* s and t agree at every position both have
AgreeWherePresent(s, t) ==
    \A k \in (1..Len(s)) \cap (1..Len(t)) : s[k] = t[k]

(* C26: the k-th siman attempted for a slot on a date depends only on the   *)
(* date, the slot and k: two computations of the date attempt the same     *)
(* simanim, position by position, whatever the Content Source answered to  *)
(* the earlier attempts of either.                                          *)
C26_AttemptsIndependentOfAnswers ==
    TwoComputations =>
        /\ AgreeWherePresent(prev.first.simanim, ret.first.simanim)
        /\ AgreeWherePresent(prev.second.simanim, ret.second.simanim)

-----------------------------------------------------------------------------
\* the generator of a slot (rng1 or rng2) once its fetch sequence has returned
SlotGeneratorAfter(d, src, volume, suffix) ==
    GetRandomHalachaFromVolume(src, volume, SeededRandom(d, suffix)).rng

\* unit is the placeholder for volume whose siman is the next draw of rng
NextDrawOf(rng, volume, unit) ==
    /\ IsFallbackUnit(unit)
    /\ unit.siman = RandInt(rng, 1, volume.max_siman).val

(* C27: the siman of a fallback unit is one more draw, taken after the      *)
(* failed attempts, from the sub-seeded generator that produced the        *)
(* attempted simanim of its slot.                                           *)
C27_FallbackFromSlotGenerator ==
    FreshReturned =>
        /\ ret.first.fallback =>
               NextDrawOf(SlotGeneratorAfter(ret.date, ret.src,
                                             CategoriesOf(ret.date).vol1, "-1"),
                          CategoriesOf(ret.date).vol1, ret.value.first)
        /\ ret.second.fallback =>
               NextDrawOf(SlotGeneratorAfter(ret.date, ret.src,
                                             CategoriesOf(ret.date).vol2, "-2"),
                          CategoriesOf(ret.date).vol2, ret.value.second)

-----------------------------------------------------------------------------
\* the Content Source answered both computations alike for category volume
SameAnswersFor(volume) == prev.src[volume.volume] = ret.src[volume.volume]

(* C28: the unit placed in a slot (category, siman, seif, text, link) is    *)
(* determined by the date and the Content Source's answers for that slot's *)
(* category: two computations of one date that differ only in the answers  *)
(* for the other category place the same unit in this slot.                *)
C28_SlotIndependentOfOther ==
    TwoComputations =>
        /\ SameAnswersFor(CategoriesOf(ret.date).vol1) =>
               prev.value.first = ret.value.first
        /\ SameAnswersFor(CategoriesOf(ret.date).vol2) =>
               prev.value.second = ret.value.second

-----------------------------------------------------------------------------
\* no thread is inside get_daily_pair
Quiescent == \A i \in 1..2 : callers.who[i].pc \in {"idle", "done"}

\* the snapshot file of d can be loaded
SnapshotExists(d) == d \in DOMAIN disk /\ LoadError(disk[d]) = ""

\* the locators and texts of a pairing
Content(pair) == <<Selection(pair), pair.first.hebrew_text, pair.second.hebrew_text>>

\* wherever a snapshot exists, the memory pairing of its date has its content
MemoryAgreesWithSnapshot ==
    \A d \in DOMAIN memory :
        SnapshotExists(d) => Content(memory[d]) = Content(SnapshotPair(disk[d]))

(* C29, as claimed: after any interleaving of get_daily_pair calls for one  *)
(* date in one process, if a snapshot exists for the date then the memory  *)
(* pairing of the date has the locators and texts of the snapshot.         *)
C29_MemoryMatchesSnapshot == Quiescent => MemoryAgreesWithSnapshot

(* C29, amended: when at most one of the calls missed every tier, the      *)
(* memory pairing has the locators and texts of the snapshot; two calls    *)
(* that both miss assign memory and write the snapshot each on its own.    *)
C29_MemoryMatchesSnapshotUnlessBothMiss ==
    (Quiescent /\ ~BothMissed) => MemoryAgreesWithSnapshot

\* one thread computed and saved, the other was answered from the snapshot,
\* and both are back
C29_Witness ==
    /\ Back(1) /\ Back(2)
    /\ \E i \in 1..2 : callers.who[i].missed /\ callers.who[i].raised = ""
    /\ \E i \in 1..2 : ~callers.who[i].missed /\ callers.who[i].raised = ""
    /\ callers.order # << >>
    /\ \E d \in DOMAIN memory : SnapshotExists(d)

-----------------------------------------------------------------------------
\* _load_cached_pair(d), run on the present caches, reports a miss: it
\* returns None, be it for want of a file or after catching a load error
LoadMisses(d) ==
    /\ LoadCachedPair(d, memory, messages, disk).raised = ""
    /\ IsNone(LoadCachedPair(d, memory, messages, disk).value)

\* the step is a get_cached_messages(d) that went through _load_cached_pair
AskedThroughLoad(d) == AskedMessages(d) /\ d \notin DOMAIN messages

(* C30: whenever _load_cached_pair reports a miss for a date, also after    *)
(* catching a load error, it has added no entry for the date to the memory *)
(* pairing cache or to the rendered-message cache.                         *)
C30_MissAddsNothing ==
    [][\A d \in Dates :
          (AskedThroughLoad(d) /\ LoadMisses(d)) =>
              /\ SameAt(memory', memory, d)
              /\ SameAt(messages', messages, d)]_vars

-----------------------------------------------------------------------------
\* what _save_cached_pair and _load_cached_pair render for pair of date d
RenderingOf(pair, d) == <<WelcomeMessage>> \o FormatDailyMessage(pair, d).msgs

(* C31: with snapshots written only by this program, also when writing the  *)
(* file fails, a date that has rendered messages in the message cache has  *)
(* a pairing in the memory cache, and the messages are the welcome message *)
(* followed by the rendering of that pairing.                              *)
C31_MessagesRenderMemory ==
    \A d \in DOMAIN messages :
        /\ d \in DOMAIN memory
        /\ messages[d] = RenderingOf(memory[d], d)

-----------------------------------------------------------------------------
\* the largest of a non-empty sequence of ids
MaxId(ids) == CHOOSE m \in Elements(ids) : \A n \in Elements(ids) : n <= m

\* the run that has just ended received updates
Received(run) == run.outcome = "return" /\ run.ids # << >>

\* the run that has just ended gave up after MaxRetries failed get_updates,
\* or was returned no updates
CameBackEmpty(run) ==
    run.outcome = "return" /\ run.value /\ run.ids = << >> /\ run.attempts > 0

(* C32: the persisted last_update_id never decreases from run to run of     *)
(* poll_and_respond; a run that receives updates persists the largest      *)
(* update_id of the batch, also when updates carry no command or a handler *)
(* failed; a run whose get_updates fails 3 times or returns no updates     *)
(* leaves the state file as it is.                                         *)
C32_LastUpdateIdMonotonic ==
    [][/\ LoadState(statefile') >= LoadState(statefile)
       /\ Received(polled') => /\ statefile' = SaveState(MaxId(polled'.ids))
                               /\ polled'.before = LoadState(statefile)
       /\ CameBackEmpty(polled') => statefile' = statefile]_vars

\* a later run received two updates out of order, one without a command and
\* one whose handler failed, and the file holds the larger id
C32_Witness ==
    /\ Received(polled)
    /\ polled.before > 0
    /\ Len(polled.ids) = 2 /\ polled.ids[1] > polled.ids[2]
    /\ polled.handled = 1 /\ polled.failed = 1
    /\ statefile = SaveState(polled.ids[1])

-----------------------------------------------------------------------------
\* the positions of the sends to the channel and to subscribers
ChannelSent(run) == {i \in 1..Len(run.sent) : run.sent[i].to = "channel"}

SubscriberSent(run) == {i \in 1..Len(run.sent) : run.sent[i].to = "subscriber"}

\* every one of the day's channel messages was sent
AllChannelSent(run) ==
    /\ run.n > 0
    /\ \A m \in 1..run.n : \E i \in ChannelSent(run) : run.sent[i].msg = m

(* C33: send_daily_broadcast sends every channel message before any        *)
(* subscriber message; if obtaining the pairing fails or a channel send    *)
(* fails or raises, no subscriber is sent anything and the result is       *)
(* False; the result is True only if every channel message was sent.       *)
C33_ChannelFirst ==
    cast.called =>
        /\ \A i \in ChannelSent(cast) : \A j \in SubscriberSent(cast) : i < j
        /\ SubscriberSent(cast) # {} => AllChannelSent(cast)
        /\ (ret.outcome = "raise" \/ cast.stage \in {"pair", "channel"}) =>
               SubscriberSent(cast) = {} /\ ~cast.result
        /\ (cast.stage # "pair" /\ ~IntRaises(cast.env.channel_id)
               /\ \E m \in 1..2 : cast.env.channel[m] # "ok") =>
               SubscriberSent(cast) = {} /\ ~cast.result
        /\ cast.result => AllChannelSent(cast)

\* the first channel message went out, the second send returned no
\* message_id, and there were subscribers to send to
C33_Witness ==
    /\ cast.called
    /\ cast.stage = "channel"
    /\ Len(cast.sent) = 1
    /\ cast.env.channel = <<"ok", "falsy">>
    /\ cast.subs # {}

-----------------------------------------------------------------------------
\* the numbers of the messages sent to subscriber s, in the order sent
MessagesSentTo(run, s) ==
    LET to_s == SelectSeq(run.sent, LAMBDA x : x.to = "subscriber" /\ x.chat = s)
    IN  [i \in DOMAIN to_s |-> to_s[i].msg]

\* <<1, ..., n>>
UpTo(n) == [i \in 1..n |-> i]

\* the subscribers of the file other than the channel's own chat
OtherSubscribers(run) == LoadSubscribers(subsfile) \ {run.env.channel_id.int}

\* the broadcast reached the loop over the subscribers
ReachedSubscribers(run) == run.called /\ run.stage = "done"

(* C34: within one send_daily_broadcast a send failure for a subscriber    *)
(* ends only that subscriber's messages: every other subscriber receives   *)
(* all of the day's messages in order, the channel's own chat id is not    *)
(* sent to again as a subscriber, and the result stays True.               *)
C34_SubscriberFailureIsLocal ==
    ReachedSubscribers(cast) =>
        /\ cast.result
        /\ \A s \in OtherSubscribers(cast) :
               MessagesSentTo(cast, s)
                   = IF cast.env.failing[s] = 0 THEN UpTo(cast.n)
                     ELSE UpTo(cast.env.failing[s] - 1)
        /\ \A i \in SubscriberSent(cast) :
               cast.sent[i].chat \in OtherSubscribers(cast)
        /\ Elements(cast.failed)
               = {s \in OtherSubscribers(cast) : cast.env.failing[s] # 0}

\* the channel's chat is in the subscribers file; the subscriber served
\* first failed at its second message and the one served next got both
C34_Witness ==
    /\ ReachedSubscribers(cast)
    /\ LoadSubscribers(subsfile) = {1, 2, 3}
    /\ cast.failed = <<3>>
    /\ MessagesSentTo(cast, 3) = <<1>>
    /\ MessagesSentTo(cast, 2) = <<1, 2>>
    /\ cast.sent[Len(cast.sent)].chat = 2

-----------------------------------------------------------------------------
(* C35: the voice message send_voice_for_pair sends for a slot is audio    *)
(* synthesized from the text of the unit in that slot of the pairing it    *)
(* was given: get_or_generate_audio never returns audio generated from a   *)
(* different text for the same date and slot.                              *)
C35_VoiceIsOfGivenText ==
    spoken.called =>
        \A i \in DOMAIN spoken.sent :
            spoken.sent[i].from = spoken.texts[spoken.sent[i].slot]

-----------------------------------------------------------------------------
\* the unified channel is disabled or not configured
NotConfigured(env) == ~env.enabled \/ ~env.channel \/ ~env.token

\* the send attempts of the call that succeeded
Succeeded(p) == {i \in 1..p.attempts : p.env.outcomes[i] = "ok"}

(* C36: publish_text makes at most 3 send attempts, stops at the first     *)
(* success, returns True exactly when an attempt succeeded, and sends      *)
(* nothing and returns False when the unified channel is disabled or not   *)
(* configured.                                                             *)
C36_PublishBounded ==
    published.called =>
        /\ published.attempts <= 3
        /\ Succeeded(published) \subseteq {published.attempts}
        /\ published.result <=> Succeeded(published) # {}
        /\ NotConfigured(published.env) =>
               /\ published.attempts = 0
               /\ ~published.result
               /\ published.raised = ""

\* a call that failed once and then succeeded, with an attempt to spare
C36_Witness ==
    /\ published.called
    /\ ~NotConfigured(published.env)
    /\ published.env.outcomes = <<"TelegramError", "ok", "ok">>
    /\ published.attempts = 2
    /\ published.result

====
